---- MODULE Spec2Model ----
(***************************************************************************)
(* Ghost-text suggestion lifecycle and request coordination of the Thonny  *)
(* AI completion plugin (thonnycontrib/ai_completion/main.py).             *)
(*                                                                         *)
(* A text is a sequence of one-character strings.  An editor buffer is a   *)
(* sequence of cells: a character with its "ghost" and "sel" tags.  The    *)
(* buffers of the model hold one line, so the Tk index "1.c" is the        *)
(* offset c (0 .. length).                                                 *)
(***************************************************************************)
EXTENDS Integers, Sequences, FiniteSets, TLC

\* ------------------------------------------------------------------ bounds
\* Requests issued in one run (the value _last_request_id may reach), with one
\* editor and with two editor tabs.
MaxRequests == 2
MaxTabRequests == 3
\* Editing inputs of the user (typed characters, Tab indents, mouse clicks and
\* selections) in one run.
MaxInputs == 2
\* Deferred _clear_and_reset callbacks (after_idle) pending per widget.
MaxIdle == 1
\* Continuous-completion timers (after 300) pending per widget.
MaxCont == 1
\* The time that passes in one step of the clock, in milliseconds.
TickMs == 1000
\* The longest suggestion, suffix and prefix overlap removal is applied to.
MaxSuggestionLen == 4
MaxSuffixLen == 2
MaxPrefixLen == 1
\* the lines of an answer of the model given to _clean_completion
MaxResponseLines == 4
\* the characters of a buffer given to extract_context, and the small window
\* (lines each way, characters in all) it is also called with
MaxBufferLen == 5
WindowLines == 1
WindowChars == 4
\* the longest line _should_trigger is applied to on its own
MaxLineLen == 5
\* the most path pieces after the host of a configured endpoint
MaxUrlParts == 3

\* --------------------------------------------------------------- constants
REQUEST_STATE_IDLE == 0
REQUEST_STATE_REQUESTING == 1
REQUEST_STATE_SHOWING == 2
MIN_PREFIX_LENGTH == 2
AUTO_TRIGGER_DELAY_MS == 300
MIN_TRIGGER_INTERVAL_MS == 1000
CONTEXT_LINES_BEFORE == 50
CONTEXT_LINES_AFTER == 10
MAX_CONTEXT_CHARS == 4000
SuffixCompareLen == 500
BoundaryLen == 20
TabWidth == 4
COMPLETION_MODE_INSERT == "completion"
COMPLETION_MODE_FIX == "fix"

\* The editor widgets (tabs) a session can have; they share the module-level state.
Widgets == {"A", "B"}
NoWidget == "none"

\* ------------------------------------------------------------ text helpers
Min(a, b) == IF a < b THEN a ELSE b
Max(a, b) == IF a > b THEN a ELSE b

\* str.isspace() of one character
IsSpace(c) == c \in {" ", "\n", "\t"}

\* s[:n]
Take(s, n) == SubSeq(s, 1, Min(n, Len(s)))
\* s[n:]
Drop(s, n) == SubSeq(s, Min(n, Len(s)) + 1, Len(s))

\* s.lstrip()
LStrip(s) ==
    LET ks == {k \in 1..Len(s) : ~IsSpace(s[k])}
    IN  IF ks = {} THEN <<>>
        ELSE SubSeq(s, CHOOSE k \in ks : \A j \in ks : k <= j, Len(s))
\* s.rstrip()
RStrip(s) ==
    LET ks == {k \in 1..Len(s) : ~IsSpace(s[k])}
    IN  IF ks = {} THEN <<>>
        ELSE SubSeq(s, 1, CHOOSE k \in ks : \A j \in ks : k >= j)
\* s.strip()
Strip(s) == LStrip(RStrip(s))
\* not s or not s.strip()
IsBlank(s) == Strip(s) = <<>>

\* s.startswith(t), s.endswith(t)
StartsWith(s, t) == Len(t) <= Len(s) /\ SubSeq(s, 1, Len(t)) = t
EndsWith(s, t) == Len(t) <= Len(s) /\ SubSeq(s, Len(s) - Len(t) + 1, Len(s)) = t

\* s.split('\n')
RECURSIVE SplitLines(_)
SplitLines(s) ==
    LET ks == {k \in 1..Len(s) : s[k] = "\n"}
    IN  IF ks = {} THEN <<s>>
        ELSE LET k == CHOOSE i \in ks : \A j \in ks : i <= j
             IN  <<SubSeq(s, 1, k - 1)>> \o SplitLines(SubSeq(s, k + 1, Len(s)))

\* '\n'.join(ls)
RECURSIVE JoinLines(_)
JoinLines(ls) ==
    IF Len(ls) = 0 THEN <<>>
    ELSE IF Len(ls) = 1 THEN ls[1]
    ELSE ls[1] \o <<"\n">> \o JoinLines(Tail(ls))

\* ---------------------------------------------------------- pure functions
\* GhostText._remove_overlap, once suffix_clean and the lines of the suggestion
\* are known (lines 249-279)
OverlapRemoved(suggestion, suffix_clean, suggestion_lines) ==
    LET \* strategy 1: the longest tail of the suggestion that starts the suffix
        ns == {n \in 1..Min(Len(suggestion), Len(suffix_clean)) :
                  EndsWith(suggestion, Take(suffix_clean, n))}
        overlap_len == CHOOSE n \in ns : \A m \in ns : n >= m
        trimmed == Take(suggestion, Len(suggestion) - overlap_len)
        \* strategy 2: the last line of the suggestion equal to the suffix's first line
        first_suffix_line == Strip(SplitLines(suffix_clean)[1])
        is == {i \in 1..Len(suggestion_lines) :
                  Strip(suggestion_lines[i]) = first_suffix_line}
        i0 == CHOOSE i \in is : \A j \in is : i >= j
        result == JoinLines(SubSeq(suggestion_lines, 1, i0 - 1))
    IN  IF suffix_clean = <<>> THEN suggestion
        ELSE IF ns # {} /\ ~IsBlank(trimmed) THEN trimmed
        ELSE IF first_suffix_line # <<>> /\ is # {} /\ i0 > 1 /\ ~IsBlank(result)
             THEN IF Strip(suggestion_lines[i0 - 1]) # <<>>
                  THEN result \o <<"\n">> ELSE result
        ELSE suggestion

\* GhostText._remove_overlap(suggestion, suffix): suffix_clean is
\* suffix[:500].lstrip()
RemoveOverlap(suggestion, suffix) ==
    IF suggestion = <<>> \/ suffix = <<>> THEN suggestion
    ELSE CHOOSE result \in
             {OverlapRemoved(s, suffix_clean, suggestion_lines) :
                  s \in {suggestion},
                  suffix_clean \in {LStrip(Take(suffix, SuffixCompareLen))},
                  suggestion_lines \in {SplitLines(suggestion)}} : TRUE

\* _remove_boundary_overlap(suggestion, boundary_before, boundary_after)
RemoveBoundaryOverlap(suggestion, boundary_before, boundary_after) ==
    LET s1 == IF boundary_before # <<>> /\ StartsWith(suggestion, boundary_before)
              THEN Drop(suggestion, Len(boundary_before)) ELSE suggestion
        s2 == IF boundary_after # <<>> /\ s1 # <<>> /\ EndsWith(s1, boundary_after)
              THEN Take(s1, Len(s1) - Len(boundary_after)) ELSE s1
        ns == {n \in 1..Min(Len(s2), Len(boundary_after)) :
                  EndsWith(s2, Take(boundary_after, n))}
        s3 == IF boundary_after # <<>> /\ s1 # <<>> /\ ns # {}
              THEN Take(s2, Len(s2) - (CHOOSE n \in ns : \A m \in ns : n >= m))
              ELSE s2
        s4 == Strip(s3)
    IN  IF suggestion = <<>> THEN suggestion
        ELSE IF s4 = <<>> /\ Strip(suggestion) # <<>> THEN Strip(suggestion)
        ELSE s4

\* str.isalnum() of one character
AlnumChars == {"a", "b", "c", "d", "e", "f", "g", "h", "i", "j", "k", "l", "m", "n", "o", "p", "q", "r", "s", "t", "u", "v", "w", "x", "y", "z", "0", "1", "2", "3", "4", "5", "6", "7", "8", "9"}
IsAlnum(c) == c \in AlnumChars
\* char.isalnum() or char == '_'
IsWordChar(c) == IsAlnum(c) \/ c = "_"

\* _expand_selection_to_boundary, single-line selection: line is the text of the
\* line, start_col and end_col the raw selection; the result is the expanded
\* selection, its text and the boundary contexts.
ExpandSelection(line, start_col, end_col) ==
    LET new_start_col == CHOOSE k \in 0..start_col :
            /\ \A j \in (k + 1)..start_col : IsWordChar(line[j])
            /\ (k = 0 \/ ~IsWordChar(line[k]))
        new_end_col == CHOOSE k \in end_col..Len(line) :
            /\ \A j \in (end_col + 1)..k : IsWordChar(line[j])
            /\ (k = Len(line) \/ ~IsWordChar(line[k + 1]))
    IN  [selection_start |-> new_start_col,
         selection_end |-> new_end_col,
         selected_text |-> SubSeq(line, new_start_col + 1, new_end_col),
         boundary_before |-> SubSeq(line, Max(0, new_start_col - BoundaryLen) + 1, new_start_col),
         boundary_after |-> SubSeq(line, new_end_col + 1, Min(Len(line), new_end_col + BoundaryLen))]

\* _should_trigger: line is the text from the line start to the cursor
TriggerKeywords ==
    { <<"d", "e", "f", " ">>,
      <<"c", "l", "a", "s", "s", " ">>,
      <<"f", "o", "r", " ">>,
      <<"w", "h", "i", "l", "e", " ">>,
      <<"i", "f", " ">>,
      <<"e", "l", "i", "f", " ">>,
      <<"w", "i", "t", "h", " ">>,
      <<"i", "m", "p", "o", "r", "t", " ">>,
      <<"f", "r", "o", "m", " ">>,
      <<"r", "e", "t", "u", "r", "n", " ">>,
      <<"p", "r", "i", "n", "t", "(">>,
      <<"s", "e", "l", "f", ".">>,
      <<"t", "r", "y", ":">>,
      <<"e", "x", "c", "e", "p", "t">>,
      <<"f", "i", "n", "a", "l", "l", "y", ":">>,
      <<"e", "l", "s", "e", ":">>,
      <<"a", "s", "y", "n", "c", " ">>,
      <<"a", "w", "a", "i", "t", " ">>,
      <<"l", "a", "m", "b", "d", "a", " ">>,
      <<"y", "i", "e", "l", "d", " ">>,
      <<"r", "a", "i", "s", "e", " ">>,
      <<"a", "s", "s", "e", "r", "t", " ">>,
      <<"g", "l", "o", "b", "a", "l", " ">>,
      <<"n", "o", "n", "l", "o", "c", "a", "l", " ">> }
TriggerEndings == {"=", "(", "[", "{", ",", ":", ".", "+", "-", "*", "/", ">", "<", "&", "|", "%", "@", "!", "~"}
ShouldTrigger(line) ==
    LET stripped == Strip(line)
        rstripped == RStrip(line)
    IN  IF stripped = <<>> THEN FALSE
        ELSE \/ \E t \in TriggerKeywords : StartsWith(stripped, t)
             \/ rstripped[Len(rstripped)] \in TriggerEndings
             \/ (\E k \in 1..Len(stripped) : stripped[k] = "=") /\ stripped[1] # "#"
             \/ (\E k \in 1..Len(stripped) : stripped[k] = "(") /\ stripped[Len(stripped)] # ")"
             \/ /\ Len(stripped) >= MIN_PREFIX_LENGTH
                /\ \/ IsAlnum(stripped[Len(stripped)])
                   \/ line[Len(line)] = " "

\* ------------------------------------------------------- errors and messages
\* t in s, for texts
Contains(s, t) ==
    \E k \in 0..(Len(s) - Len(t)) : SubSeq(s, k + 1, k + Len(t)) = t
\* s.lower()
UpperChars ==
    <<"A", "B", "C", "D", "E", "F", "G", "H", "I", "J", "K", "L", "M", "N",
      "O", "P", "Q", "R", "S", "T", "U", "V", "W", "X", "Y", "Z">>
LowerChars ==
    <<"a", "b", "c", "d", "e", "f", "g", "h", "i", "j", "k", "l", "m", "n",
      "o", "p", "q", "r", "s", "t", "u", "v", "w", "x", "y", "z">>
Lower(s) ==
    [k \in 1..Len(s) |->
        IF \E i \in 1..Len(UpperChars) : UpperChars[i] = s[k]
        THEN LowerChars[CHOOSE i \in 1..Len(UpperChars) : UpperChars[i] = s[k]]
        ELSE s[k]]

\* str(e) of the HTTPError that response.raise_for_status() raises for a 401
Http401Error ==
    <<"4", "0", "1", " ", "C", "l", "i", "e", "n", "t", " ", "E", "r", "r",
      "o", "r", ":", " ", "U", "n", "a", "u", "t", "h", "o", "r", "i", "z",
      "e", "d", " ", "f", "o", "r", " ", "u", "r", "l", ":", " ", "h", "t",
      "t", "p", "s", ":", "/", "/", "a", "p", "i", ".", "e", "x", "a", "m",
      "p", "l", "e", ".", "c", "o", "m", "/", "v", "1", "/", "c", "h", "a",
      "t", "/", "c", "o", "m", "p", "l", "e", "t", "i", "o", "n", "s">>
\* "API error: " of the RequestException handler
ApiErrorPrefix ==
    <<"A", "P", "I", " ", "e", "r", "r", "o", "r", ":", " ">>
\* "Error: " of the last handler and the text of the ValueError for an empty answer
ErrorPrefix ==
    <<"E", "r", "r", "o", "r", ":", " ">>
EmptyResponseError ==
    <<"E", "m", "p", "t", "y", " ", "r", "e", "s", "p", "o", "n", "s", "e",
      " ", "f", "r", "o", "m", " ", "A", "I">>

\* What the HTTP exchange of AIClient._make_api_request can bring back: a
\* status, and for a 200 the content of the first choice.
Responses ==
    {[status |-> 200, content |-> <<"x", "a">>],
     [status |-> 200, content |-> <<" ">>],
     [status |-> 200, content |-> <<>>],
     [status |-> 401, content |-> <<>>]}

\* ---------------------------------------- ContextExtractor.extract_context
\* The characters str.splitlines() ends a line at (the control characters
\* among them that a text can be written with here); "\r\n" ends one line.
LineBoundaries == {"\n", "\r", "\f"}

\* s.splitlines(keepends=True)
RECURSIVE SplitLinesKeepEnds(_)
SplitLinesKeepEnds(s) ==
    LET ks == {k \in 1..Len(s) : s[k] \in LineBoundaries}
    IN  IF s = <<>> THEN <<>>
        ELSE IF ks = {} THEN <<s>>
        ELSE LET k == CHOOSE i \in ks : \A j \in ks : i <= j
                 end == IF s[k] = "\r" /\ k < Len(s) /\ s[k + 1] = "\n" THEN k + 1 ELSE k
             IN  <<SubSeq(s, 1, end)>> \o SplitLinesKeepEnds(SubSeq(s, end + 1, Len(s)))

\* ''.join(ls)
RECURSIVE JoinAll(_)
JoinAll(ls) == IF Len(ls) = 0 THEN <<>> ELSE ls[1] \o JoinAll(Tail(ls))

\* ls[lo:hi] for 0 <= lo, 0 <= hi
Slice(ls, lo, hi) == SubSeq(ls, lo + 1, Min(hi, Len(ls)))

\* text_widget.index("insert") for the cursor after pos characters: the line
\* from 1 and the column from 0, the lines of Tk ending at "\n" only.
TkIndex(text, pos) ==
    LET breaks == {k \in 1..pos : text[k] = "\n"}
    IN  [line |-> Cardinality(breaks) + 1,
         col |-> pos - (IF breaks = {} THEN 0 ELSE CHOOSE k \in breaks : \A j \in breaks : k >= j)]

\* extract_context(text_widget, cursor_pos), lines 58-124, for the text of the
\* widget and the cursor at line.col; window holds the three limits, which the
\* code reads from CONTEXT_LINES_BEFORE, CONTEXT_LINES_AFTER, MAX_CONTEXT_CHARS.
ExtractContext(full_text, line, col, window) ==
    LET lines == SplitLinesKeepEnds(full_text)
        total_lines == Len(lines)
        start_line == Max(1, line - window.lines_before)
        end_line == Min(total_lines, line + window.lines_after)
        context_before_lines == Slice(lines, start_line - 1, line - 1)
        current_line == IF line <= Len(lines) THEN lines[line] ELSE <<>>
        context_after_lines == IF line < Len(lines) THEN Slice(lines, line, end_line) ELSE <<>>
        current_line_before == IF col <= Len(current_line) THEN Take(current_line, col)
                               ELSE current_line
        current_line_after == IF col <= Len(current_line) THEN Drop(current_line, col)
                              ELSE <<>>
        prefix == JoinAll(context_before_lines) \o current_line_before
        suffix == current_line_after \o JoinAll(context_after_lines)
        half == window.max_chars \div 2
    IN  [prefix |-> IF Len(prefix) > half
                    THEN SubSeq(prefix, Len(prefix) - half + 1, Len(prefix)) ELSE prefix,
         suffix |-> IF Len(suffix) > half THEN Take(suffix, half) ELSE suffix,
         current_line |-> current_line,
         cursor_line |-> line,
         cursor_col |-> col,
         total_lines |-> total_lines,
         total_chars |-> Len(full_text),
         context_start_line |-> start_line,
         context_end_line |-> end_line]

\* ------------------------------------------------- AIClient._clean_completion
\* str.isalpha() of one character, and the characters of [a-zA-Z0-9_]
AlphaChars ==
    {LowerChars[i] : i \in 1..Len(LowerChars)} \cup {UpperChars[i] : i \in 1..Len(UpperChars)}
IsIdentStart(c) == c \in AlphaChars \/ c = "_"
IsIdentChar(c) == IsIdentStart(c) \/ IsAlnum(c)

\* s.find(t): the offset of the first occurrence, -1 for none
Find(s, t) ==
    LET ks == {k \in 0..(Len(s) - Len(t)) : SubSeq(s, k + 1, k + Len(t)) = t}
    IN  IF ks = {} THEN -1 ELSE CHOOSE k \in ks : \A j \in ks : k <= j
\* s.startswith(ts) for a tuple of texts, any(x in s for x in ts)
StartsWithAny(s, ts) == \E t \in ts : StartsWith(s, t)
ContainsAny(s, ts) == \E t \in ts : Contains(s, t)

\* The lines of ls whose index is in keep, in their order.
LinesAt(ls, keep) ==
    [n \in 1..Cardinality(keep) |->
        ls[CHOOSE k \in keep : Cardinality({j \in keep : j <= k}) = n]]

\* the fence of a code block, three backquotes; the backquote is written by its
\* code point
Fence == <<"U0060", "U0060", "U0060">>
DefKeyword == <<"d", "e", "f", " ">>
ClassKeyword == <<"c", "l", "a", "s", "s", " ">>
\* the prose openings a line outside a fenced block is dropped for (line 741)
ProseOpenings ==
    {<<"U0060", "U0060", "U0060">>, <<"H", "e", "r", "e">>, <<"T", "h", "i", "s">>,
     <<"T", "h", "e", " ">>}
\* the first characters and keywords a line outside a block is kept for
\* (lines 743-746)
CodeFirstChars == {"(", ")", "[", "]", "{", "}", "#", "'", "\""}
CodeKeywords ==
    {<<"d", "e", "f", " ">>, <<"c", "l", "a", "s", "s", " ">>,
     <<"i", "f", " ">>, <<"f", "o", "r", " ">>,
     <<"w", "h", "i", "l", "e", " ">>, <<"r", "e", "t", "u", "r", "n", " ">>,
     <<"i", "m", "p", "o", "r", "t", " ">>, <<"f", "r", "o", "m", " ">>}

\* step 1 (lines 730-749): the fence lines toggle in_block and are dropped; a
\* line inside a block is kept, one outside only if it looks like code.  With
\* no line kept the text stays as it is.
StripFences(text) ==
    LET lines == SplitLines(text)
        stripped == [i \in 1..Len(lines) |-> Strip(lines[i])]
        fences == {i \in 1..Len(lines) : StartsWith(stripped[i], Fence)}
        in_block(i) == Cardinality({j \in fences : j < i}) % 2 = 1
        code(i) ==
            /\ ~StartsWithAny(stripped[i], ProseOpenings)
            /\ stripped[i] # <<>>
            /\ \/ stripped[i][1] \in CodeFirstChars
               \/ StartsWithAny(stripped[i], CodeKeywords)
        code_lines == {i \in 1..Len(lines) : i \notin fences /\ (in_block(i) \/ code(i))}
    IN  IF ~Contains(text, Fence) \/ code_lines = {} THEN text
        ELSE JoinLines(LinesAt(lines, code_lines))

\* the openings of a line that starts the code, and the words of an
\* explanation (lines 762-772); a stripped line never starts with the
\* indentation the list also names.
CodeOpenings ==
    {<<"(">>, <<")">>, <<"[">>, <<"]">>, <<"{">>, <<"}">>, <<":">>, <<"#">>,
     <<"\"">>, <<"'">>, <<"d", "e", "f", " ">>,
     <<"c", "l", "a", "s", "s", " ">>, <<"i", "f", " ">>,
     <<"f", "o", "r", " ">>, <<"w", "h", "i", "l", "e", " ">>,
     <<"r", "e", "t", "u", "r", "n", " ">>,
     <<"i", "m", "p", "o", "r", "t", " ">>, <<"f", "r", "o", "m", " ">>,
     <<"t", "r", "y">>, <<"w", "i", "t", "h", " ">>,
     <<"e", "l", "i", "f", " ">>, <<"e", "l", "s", "e", ":">>,
     <<"e", "x", "c", "e", "p", "t">>,
     <<"f", "i", "n", "a", "l", "l", "y", ":">>,
     <<"a", "s", "y", "n", "c", " ">>, <<"s", "e", "l", "f", ".">>,
     <<"p", "r", "i", "n", "t", "(">>, <<"r", "a", "i", "s", "e", " ">>,
     <<"y", "i", "e", "l", "d", " ">>, <<"p", "a", "s", "s">>}
ExplanationWords ==
    {<<"h", "e", "r", "e">>, <<"t", "h", "i", "s", " ", "i", "s">>,
     <<"t", "h", "e", " ", "c", "o", "d", "e">>,
     <<"c", "o", "m", "p", "l", "e", "t", "e">>,
     <<"o", "u", "t", "p", "u", "t", ":">>,
     <<"r", "e", "s", "u", "l", "t", ":">>,
     <<"a", "n", "s", "w", "e", "r", ":">>,
     <<"f", "o", "l", "l", "o", "w", "i", "n", "g">>}

\* step 2 (lines 751-779): the lines before the first one that starts the
\* code, or that holds no word of an explanation, are skipped.
SkipExplanation(text) ==
    LET lines == SplitLines(text)
        skipped(i) ==
            LET stripped == Strip(lines[i])
            IN  /\ ~StartsWithAny(stripped, CodeOpenings)
                /\ ~(stripped # <<>> /\ stripped[1] \in AlphaChars /\ Contains(stripped, <<"=">>))
                /\ ContainsAny(Lower(stripped), ExplanationWords)
        starts == {i \in 1..Len(lines) : ~skipped(i)}
    IN  IF starts = {} THEN <<>>
        ELSE Strip(JoinLines(SubSeq(lines, CHOOSE i \in starts : \A j \in starts : i <= j,
                                    Len(lines))))

\* the openings of a trailing explanation (line 787)
TrailingOpenings ==
    {<<"t", "h", "i", "s", " ">>, <<"n", "o", "t", "e", ":">>,
     <<"e", "x", "p", "l", "a", "n", "a", "t", "i", "o", "n", ":">>,
     <<"t", "h", "e", " ", "a", "b", "o", "v", "e">>}

\* step 3 (lines 781-791): trailing lines that are blank or open an
\* explanation are dropped.
DropTrailingExplanation(result) ==
    LET final_lines == SplitLines(result)
        kept == {i \in 1..Len(final_lines) :
                    LET last == Lower(Strip(final_lines[i]))
                    IN  last # <<>> /\ ~StartsWithAny(last, TrailingOpenings)}
    IN  IF result = <<>> \/ kept = {} THEN <<>>
        ELSE JoinLines(SubSeq(final_lines, 1, CHOOSE i \in kept : \A j \in kept : i >= j))

\* The end of the run of white space, and of name characters, that starts
\* at index from (from - 1 for an empty run): the greedy \s+ and
\* [a-zA-Z0-9_]* of the regular expressions.
SpaceRunEnd(s, from) ==
    CHOOSE r \in (from - 1)..Len(s) :
        /\ \A j \in from..r : IsSpace(s[j])
        /\ r = Len(s) \/ ~IsSpace(s[r + 1])
IdentRunEnd(s, from) ==
    CHOOSE r \in (from - 1)..Len(s) :
        /\ \A j \in from..r : IsIdentChar(s[j])
        /\ r = Len(s) \/ ~IsIdentChar(s[r + 1])

\* re.search(keyword + r'\s+([a-zA-Z_][a-zA-Z0-9_]*)', stripped).group(1), the
\* empty text for no match (lines 813, 825)
DefinedName(stripped, keyword) ==
    LET name_at(p) == SpaceRunEnd(stripped, p + Len(keyword)) + 1
        matches == {p \in 1..(Len(stripped) - Len(keyword) + 1) :
                       /\ SubSeq(stripped, p, p + Len(keyword) - 1) = keyword
                       /\ name_at(p) > p + Len(keyword)
                       /\ name_at(p) <= Len(stripped)
                       /\ IsIdentStart(stripped[name_at(p)])}
    IN  IF matches = {} THEN <<>>
        ELSE LET q == name_at(CHOOSE p \in matches : \A j \in matches : p <= j)
             IN  SubSeq(stripped, q, IdentRunEnd(stripped, q))

DefWord == <<"d", "e", "f">>
ClassWord == <<"c", "l", "a", "s", "s">>

\* a cleaning that drops no repeated header
DropRepeatedDefinitionsMut(result) == result
\* step 4 (lines 793-837): a line holding 'def ' after other text is cut
\* before it; a def or class header whose name was already seen is skipped,
\* the header line only.
DropRepeatedDefinitions(result) ==
    LET lines == SplitLines(result)
        cut == [i \in 1..Len(lines) |->
                   IF Contains(Strip(lines[i]), DefKeyword) /\ ~StartsWith(Strip(lines[i]), DefKeyword)
                   THEN SubSeq(lines[i], 1, Find(lines[i], DefKeyword))
                   ELSE lines[i]]
        name == [i \in 1..Len(lines) |->
                    IF StartsWith(Strip(cut[i]), DefKeyword) THEN DefinedName(Strip(cut[i]), DefWord)
                    ELSE IF StartsWith(Strip(cut[i]), ClassKeyword)
                         THEN DefinedName(Strip(cut[i]), ClassWord)
                         ELSE <<>>]
        cleaned_lines == {i \in 1..Len(lines) :
                             name[i] = <<>> \/ \A j \in 1..(i - 1) : name[j] # name[i]}
    IN  IF result = <<>> THEN <<>> ELSE JoinLines(LinesAt(cut, cleaned_lines))

\* s.rstrip(c) for a character c
RStripChar(s, c) ==
    LET ends == {k \in 0..Len(s) : \A j \in (k + 1)..Len(s) : s[j] = c}
    IN  SubSeq(s, 1, CHOOSE k \in ends : \A j \in ends : k <= j)

\* re.search(r'([a-zA-Z_][a-zA-Z0-9_]*)\([^)]*\):', first_line).group(1), the
\* empty text for no match (line 902)
CalledName(first_line) ==
    LET closes(r) == {c \in (r + 2)..Len(first_line) : first_line[c] = ")"}
        ends(p) == IdentRunEnd(first_line, p)
        matches == {p \in 1..Len(first_line) :
                       /\ IsIdentStart(first_line[p])
                       /\ ends(p) < Len(first_line)
                       /\ first_line[ends(p) + 1] = "("
                       /\ closes(ends(p)) # {}
                       /\ LET c == CHOOSE c \in closes(ends(p)) : \A j \in closes(ends(p)) : c <= j
                          IN  c < Len(first_line) /\ first_line[c + 1] = ":"}
    IN  IF matches = {} THEN <<>>
        ELSE LET p == CHOOSE p \in matches : \A j \in matches : p <= j
             IN  SubSeq(first_line, p, ends(p))

CallArguments == <<"(", "1", "0", ")">>

\* the call a partial header is turned into (lines 898-909)
AsCall(lines, first_line) ==
    IF EndsWith(first_line, <<")", ":">>)
    THEN IF CalledName(first_line) # <<>> THEN CalledName(first_line) \o CallArguments
         ELSE RStripChar(lines[1], ":")
    ELSE lines[1]

\* step 5 (lines 839-987), for a result of more than one line: the five cases
\* in the order of the code, each one assigning result again.  The second arm
\* of case 2 (lines 911-927) tests a stripped line for its indentation and
\* never assigns.
KeepCallOrDefinition(result) ==
    LET lines == SplitLines(result)
        n == Len(lines)
        stripped == [i \in 1..n |-> Strip(lines[i])]
        first_line == stripped[1]
        name == [i \in 1..n |->
                    IF StartsWith(stripped[i], DefKeyword) THEN DefinedName(stripped[i], DefWord)
                    ELSE <<>>]
        has_def == {i \in 1..n : Contains(stripped[i], DefKeyword)}
        is_call == first_line # <<>> /\ ~StartsWith(first_line, DefKeyword)
        \* case 1
        breaks == {i \in 2..n : name[i] # <<>>}
        keep_lines == SubSeq(lines, 1,
                             IF breaks = {} THEN n
                             ELSE (CHOOSE i \in breaks : \A j \in breaks : i <= j) - 1)
        \* case 2
        partial == /\ EndsWith(first_line, <<":">>)
                   /\ ~Contains(first_line, DefKeyword)
                   /\ Contains(first_line, <<"(">>)
        has_full_def == \E i \in 2..n : i \in has_def
        result2 == IF StartsWith(first_line, DefKeyword) THEN Strip(JoinLines(keep_lines))
                   ELSE IF partial /\ has_full_def THEN AsCall(lines, first_line)
                   ELSE result
        \* case 3
        first_def_idx == CHOOSE i \in has_def : \A j \in has_def : i <= j
        result3 == IF /\ has_def # {} /\ first_def_idx > 1
                      /\ is_call
                      /\ (EndsWith(first_line, <<")">>) \/ Contains(first_line, <<"(">>))
                   THEN Strip(JoinLines(SubSeq(lines, 1, first_def_idx - 1)))
                   ELSE result2
        \* case 4
        named == {i \in 1..n : name[i] # <<>>}
        repeats == {i \in named : \E j \in named : j < i /\ name[j] = name[i]}
        first_def_end == IF repeats = {} THEN n
                         ELSE (CHOOSE i \in repeats : \A j \in repeats : i <= j) - 1
        result4 == IF 1 \in named THEN Strip(JoinLines(SubSeq(lines, 1, first_def_end)))
                   ELSE result3
        \* case 5
        result5 == IF /\ Cardinality(has_def) > 1
                      /\ is_call
                      /\ (EndsWith(first_line, <<":">>) \/ Contains(first_line, <<"(">>))
                   THEN lines[1]
                   ELSE result4
    IN  IF result = <<>> \/ n <= 1 THEN result ELSE result5

\* steps 2 to 5 on the text that step 1 left, and the return (line 989): an
\* empty result falls back on that text.
CleanedOr(result, text) == IF result # <<>> THEN RStrip(result) ELSE Strip(text)
CleanedText(text) ==
    CleanedOr(KeepCallOrDefinition(DropRepeatedDefinitions(
                  DropTrailingExplanation(SkipExplanation(text)))), text)

\* AIClient._clean_completion(response, mode), lines 720-989: other modes than
\* "completion" keep the answer.
CleanCompletion(response, mode) ==
    IF mode # COMPLETION_MODE_INSERT THEN response
    ELSE CleanedText(StripFences(Strip(response)))

ChatCompletionsPath ==
    <<"/", "c", "h", "a", "t", "/", "c", "o", "m", "p", "l", "e", "t", "i", "o", "n", "s">>
\* _make_api_request and request_chat, the URL posted to for the endpoint
\* configured (lines 438-441 and 135-138)
RequestUrl(endpoint) ==
    IF ~EndsWith(endpoint, ChatCompletionsPath)
    THEN RStripChar(endpoint, "/") \o ChatCompletionsPath
    ELSE endpoint

\* The message of _make_api_request for a client without a key (line 426); a
\* character outside ASCII is written by its code point.
ApiKeyMissingError ==
    <<"A", "P", "I", " ", "U5BC6", "U94A5", "U672A", "U914D", "U7F6E",
      "UFF0C", "U8BF7", "U5728", "U8BBE", "U7F6E", "U4E2D", "U914D",
      "U7F6E", " ", "A", "P", "I", " ", "K", "e", "y">>
\* self.api_key of a client: none configured, or one
ApiKeys == {<<>>, <<"k">>}
\* The key the configuration of a session holds.
ConfiguredKey == <<"k">>

\* a key test that takes every client for configured
KeyMissingMut(api_key) == FALSE
\* not self.api_key (line 422)
KeyMissing(api_key) == api_key = <<>>

\* _make_api_request up to the answer: the failure it returns or raises into,
\* and in posts the calls of requests.post made.  Without a key the failure is
\* returned before the exchange; a status of 401 raises in raise_for_status,
\* an empty content raises ValueError.
RequestFailure(api_key, response) ==
    IF KeyMissing(api_key)
    THEN [failed |-> TRUE, message |-> ApiKeyMissingError, posts |-> 0]
    ELSE IF response.status = 401
    THEN [failed |-> TRUE, message |-> ApiErrorPrefix \o Http401Error, posts |-> 1]
    ELSE IF response.content = <<>>
    THEN [failed |-> TRUE, message |-> ErrorPrefix \o EmptyResponseError, posts |-> 1]
    ELSE [failed |-> FALSE, message |-> <<>>, posts |-> 1]

\* AIClient.request(context), through _make_api_request: the result for what
\* the HTTP exchange brought back; the content of an answer is cleaned.
Request(api_key, response, mode) ==
    IF RequestFailure(api_key, response).failed
    THEN [success |-> FALSE, text |-> <<>>,
          message |-> RequestFailure(api_key, response).message,
          posts |-> RequestFailure(api_key, response).posts]
    ELSE [success |-> TRUE, text |-> CleanCompletion(response.content, mode),
          message |-> <<>>, posts |-> 1]

\* an error handler that knows no kind of error
ErrorDisplayMut(error_msg) ==
    [error_display |-> "{error_msg}", detail |-> Take(error_msg, 50),
     show_settings_hint |-> FALSE]
\* _handle_error, the classification of the message (lines 916-941): the text
\* for the status bar, without its leading mark, and the settings hint.
ErrorDisplay(error_msg) ==
    LET low == Lower(error_msg)
        has(t) == Contains(error_msg, t)
        lhas(t) == Contains(low, t)
        fixed(text, hint) ==
            [error_display |-> text, detail |-> <<>>, show_settings_hint |-> hint]
    IN  IF has(<<"A", "P", "I">>)
           /\ (has(<<"U5BC6", "U94A5">>) \/ lhas(<<"k", "e", "y">>) \/ has(<<"4", "0", "1">>))
        THEN fixed("API key is invalid or not configured", TRUE)
        ELSE IF lhas(<<"e", "n", "d", "p", "o", "i", "n", "t">>)
                \/ has(<<"U8FDE", "U63A5">>)
                \/ lhas(<<"c", "o", "n", "n", "e", "c", "t">>)
        THEN fixed("Failed to connect to the API endpoint", TRUE)
        ELSE IF lhas(<<"t", "i", "m", "e", "o", "u", "t">>) \/ has(<<"U8D85", "U65F6">>)
        THEN fixed("Request timed out, please try again later", FALSE)
        ELSE IF has(<<"4", "2", "9">>)
        THEN fixed("Requests are too frequent, please try again later.", FALSE)
        ELSE IF lhas(<<"n", "e", "t", "w", "o", "r", "k">>)
                \/ lhas(<<"c", "o", "n", "n", "e", "c", "t", "i", "o", "n">>)
        THEN fixed("Network connection failed", FALSE)
        ELSE IF lhas(<<"r", "e", "f", "u", "s", "e", "d">>)
        THEN fixed("Connection refused by server", FALSE)
        ELSE IF has(<<"4", "0", "4">>)
        THEN fixed("API endpoint not found (404)", TRUE)
        ELSE IF has(<<"5", "0", "0">>) \/ has(<<"5", "0", "2">>) \/ has(<<"5", "0", "3">>)
        THEN fixed("Server error, please try again later", FALSE)
        ELSE IF has(<<"U914D", "U7F6E">>) \/ lhas(<<"c", "o", "n", "f", "i", "g">>)
        THEN fixed("API configuration error", TRUE)
        ELSE [error_display |-> "{error_msg}", detail |-> Take(error_msg, 50),
              show_settings_hint |-> FALSE]

\* The messages of the failures AIClient.request can return, and ErrorDisplay
\* over them.
Messages ==
    {RequestFailure(api_key, response).message :
        api_key \in ApiKeys, response \in Responses}
ErrorDisplays == [error_msg \in Messages |-> ErrorDisplay(error_msg)]

\* _handle_error(error_msg, widget), what it surfaces: the status message and
\* the dialog it schedules with widget.after(100, show_error_dialog)
HandleError(error_msg, w) ==
    LET e == ErrorDisplays[error_msg]
    IN  [op |-> "error", widget |-> w,
         error_display |-> e.error_display, detail |-> e.detail,
         show_settings_hint |-> e.show_settings_hint,
         dialog |-> IF e.show_settings_hint THEN "askyesno" ELSE "showerror"]

\* ------------------------------------------------------------- Tk.Text model
\* A widget is [buf, ins, gs, ge]: the cells, the "insert" mark (right
\* gravity) and the marks "ghost_start" and "ghost_end" (left gravity).
Cell(c, g, s) == [c |-> c, g |-> g, s |-> s]
\* widget.get(a, b) for offsets a, b
TextOf(buf, a, b) == [k \in 1..(IF b > a THEN b - a ELSE 0) |-> buf[a + k].c]
AllText(buf) == TextOf(buf, 0, Len(buf))

\* widget.insert(p, text, tags): cells is the tagged text
InsertCells(wd, p, cells) ==
    LET n == Len(cells)
    IN  [buf |-> SubSeq(wd.buf, 1, p) \o cells \o SubSeq(wd.buf, p + 1, Len(wd.buf)),
         ins |-> IF wd.ins >= p THEN wd.ins + n ELSE wd.ins,
         gs  |-> IF wd.gs > p THEN wd.gs + n ELSE wd.gs,
         ge  |-> IF wd.ge > p THEN wd.ge + n ELSE wd.ge]

\* widget.insert(p, text, ("ghost",))
InsertGhost(wd, p, text) ==
    InsertCells(wd, p, [k \in 1..Len(text) |-> Cell(text[k], TRUE, FALSE)])

\* widget.insert(p, text): without a tag list the new text gets the tags
\* present on both the character before and the character after p
InsertPlain(wd, p, text) ==
    LET inside == p >= 1 /\ p < Len(wd.buf)
        g == inside /\ wd.buf[p].g /\ wd.buf[p + 1].g
        s == inside /\ wd.buf[p].s /\ wd.buf[p + 1].s
    IN  InsertCells(wd, p, [k \in 1..Len(text) |-> Cell(text[k], g, s)])

MoveMark(m, a, b) == IF m >= b THEN m - (b - a) ELSE IF m > a THEN a ELSE m
\* widget.delete(a, b): nothing when b <= a
DeleteRange(wd, a, b) ==
    IF b <= a THEN wd
    ELSE [buf |-> SubSeq(wd.buf, 1, a) \o SubSeq(wd.buf, b + 1, Len(wd.buf)),
          ins |-> MoveMark(wd.ins, a, b),
          gs  |-> MoveMark(wd.gs, a, b),
          ge  |-> MoveMark(wd.ge, a, b)]

\* widget.tag_remove("ghost", a, b)
UntagGhost(wd, a, b) ==
    [wd EXCEPT !.buf = [k \in 1..Len(wd.buf) |->
        IF k > a /\ k <= b THEN [wd.buf[k] EXCEPT !.g = FALSE] ELSE wd.buf[k]]]

\* the "sel" tag: sel.first and sel.last exist when some cell carries it
SelCells(buf) == {k \in 1..Len(buf) : buf[k].s}
HasSel(buf) == SelCells(buf) # {}
SelFirst(buf) == (CHOOSE k \in SelCells(buf) : \A j \in SelCells(buf) : k <= j) - 1
SelLast(buf) == CHOOSE k \in SelCells(buf) : \A j \in SelCells(buf) : k >= j
ClearSel(wd) ==
    [wd EXCEPT !.buf = [k \in 1..Len(wd.buf) |-> [wd.buf[k] EXCEPT !.s = FALSE]]]
SetSel(wd, a, b) ==
    [wd EXCEPT !.buf = [k \in 1..Len(wd.buf) |->
        [wd.buf[k] EXCEPT !.s = (k > a /\ k <= b)]]]

\* the ghost-tagged cells of a buffer
GhostCells(buf) == {k \in 1..Len(buf) : buf[k].g}

\* ------------------------------------------------------------- GhostText
\* A pane is an editor widget with its GhostText instance:
\* [wd |-> widget, gh |-> [active, ghost_text, replacement_mode, original_text]].
\* gh.before is history: the text of the buffer when the suggestion was shown.
GhostInit ==
    [active |-> FALSE, ghost_text |-> <<>>,
     replacement_mode |-> FALSE, original_text |-> <<>>, before |-> <<>>]

\* a _clear that resets the instance and leaves the text where it is
GhostClearMut(p) == [p EXCEPT !.gh = GhostInit]
\* GhostText._clear
GhostClear(p) ==
    IF ~p.gh.active /\ p.gh.ghost_text = <<>> THEN p
    ELSE LET start == p.wd.gs
             end == p.wd.ge
             deleted == DeleteRange(p.wd, start, end)
         IN  [wd |-> IF start < end
                     THEN IF p.gh.replacement_mode /\ p.gh.original_text # <<>>
                          THEN InsertPlain(deleted, start, p.gh.original_text)
                          ELSE deleted
                     ELSE p.wd,
              gh |-> GhostInit]

\* GhostText.show and show_replacement: not text or not text.strip()
\* (lines 191, 197, 295)
ShowRejects(text) == IsBlank(text)

\* GhostText.show(text, suffix): [pane, ok]
GhostShow(p, text, suffix) ==
    LET p1 == GhostClear(p)
        text1 == IF suffix # <<>> THEN RemoveOverlap(text, suffix) ELSE text
        cursor_pos == p1.wd.ins
        w1 == InsertGhost([p1.wd EXCEPT !.gs = cursor_pos], cursor_pos, text1)
        w2 == [w1 EXCEPT !.ge = w1.ins, !.ins = cursor_pos]
    IN  IF ShowRejects(text) \/ (suffix # <<>> /\ ShowRejects(text1))
        THEN [pane |-> p1, ok |-> FALSE]
        ELSE [pane |-> [wd |-> w2,
                        gh |-> [p1.gh EXCEPT !.ghost_text = text1, !.active = TRUE,
                                             !.before = AllText(p1.wd.buf)]],
              ok |-> TRUE]

\* GhostText.show_replacement(text, selection_start, selection_end, original_text)
GhostShowReplacement(p, text, selection_start, selection_end, original_text) ==
    LET p1 == GhostClear(p)
        \* an index beyond the end of the line denotes the end of the line
        w1 == DeleteRange(p1.wd, Min(selection_start, Len(p1.wd.buf)),
                                 Min(selection_end, Len(p1.wd.buf)))
        at == Min(selection_start, Len(w1.buf))
        w2 == InsertGhost([w1 EXCEPT !.gs = at], at, text)
        w3 == [w2 EXCEPT !.ge = w2.ins, !.ins = at]
    IN  IF ShowRejects(text)
        THEN [pane |-> p1, ok |-> FALSE]
        ELSE [pane |-> [wd |-> w3,
                        gh |-> [active |-> TRUE, ghost_text |-> text,
                                replacement_mode |-> TRUE,
                                original_text |-> original_text,
                                before |-> AllText(p1.wd.buf)]],
              ok |-> TRUE]

\* an accept that deletes the suggestion as a dismissal does
GhostAcceptMut(p) == GhostClear(p)
\* GhostText._accept, the widget and instance part (called when active)
GhostAccept(p) ==
    LET start == p.wd.gs
        end == p.wd.ge
    IN  [wd |-> [UntagGhost(p.wd, start, end) EXCEPT !.ins = end],
         gh |-> GhostInit]

\* ------------------------------------------------------------------ state
VARIABLES
    request_state,      \* _request_state
    last_request_id,    \* _last_request_id
    panes,              \* the editor widgets and _ghost_texts
    cur,                \* the current editor (it has the keyboard focus)
    auto_timer,         \* _auto_timer: the id of the timer scheduled last, 0 for None
    timers,             \* the pending callbacks widget.after(AUTO_TRIGGER_DELAY_MS, ...)
    since_request,      \* history: milliseconds since the last request thread started
    cont,               \* pending trigger_next_completion callbacks per widget
    idle,               \* pending after_idle _clear_and_reset callbacks per widget
    workers,            \* request threads, with the handler each has scheduled
    pending,            \* the do_completion call the UI thread is inside, or NoBody
    inputs,             \* editing inputs of the user so far
    last_op,            \* history: the key released or the suggestion resolved in the last step
    calc                \* a function of the plugin applied on its own: its arguments, then its result

vars == <<request_state, last_request_id, panes, cur, auto_timer, timers,
          since_request, cont, idle, workers, pending, inputs, last_op, calc>>

NoOp == [op |-> "none", widget |-> NoWidget]
\* calc when no function is applied on its own
NoCalc == [fn |-> "none", args |-> <<>>, done |-> FALSE, result |-> <<>>]
\* pending.from and pending.refresh are history: the request state
\* do_completion was entered in, and whether trigger_ai_completion dismissed a
\* shown suggestion before it made the call.
NoBody == [widget |-> NoWidget, manual |-> FALSE, continuous |-> FALSE, id |-> 0,
           stage |-> "none", from |-> REQUEST_STATE_IDLE, refresh |-> FALSE]

\* The characters the user types.
TypedChars == {"a", " "}

InitText == <<"a", "a">>
InitWidget ==
    [buf |-> [k \in 1..Len(InitText) |-> Cell(InitText[k], FALSE, FALSE)],
     ins |-> Len(InitText), gs |-> 0, ge |-> 0]

\* The state once load_plugin has run and setup_widget has set up the open
\* editors: nothing requested, nothing shown, no callback pending.
InitWith(editors) ==
    /\ request_state = REQUEST_STATE_IDLE
    /\ last_request_id = 0
    /\ panes = [w \in editors |-> [wd |-> InitWidget, gh |-> GhostInit]]
    /\ cur = "A"
    /\ auto_timer = 0
    /\ timers = {}
    /\ since_request = MIN_TRIGGER_INTERVAL_MS
    /\ cont = [w \in editors |-> 0]
    /\ idle = [w \in editors |-> 0]
    /\ workers = {}
    /\ pending = NoBody
    /\ inputs = 0
    /\ last_op = NoOp

\* A session with one editor.
Init == InitWith({"A"}) /\ calc = NoCalc
\* A session with two editor tabs.
InitTabs == InitWith(Widgets) /\ calc = NoCalc

\* ---------------------------------------------------------------- actions
UIReady == pending = NoBody

\* after_idle(self._clear_and_reset), queued by a handler when the ghost is active
QueueIdle(w, active) ==
    /\ active => idle[w] < MaxIdle
    /\ idle' = IF active THEN [idle EXCEPT ![w] = @ + 1] ELSE idle

\* A call do_completion(widget, manual, continuous): the UI thread is inside
\* the call until DoCompletionEnter and DoCompletionBody have run.
CallDoCompletion(w, manual, continuous, refresh) ==
    /\ last_request_id < (IF DOMAIN panes = Widgets THEN MaxTabRequests ELSE MaxRequests)
    /\ pending' = [widget |-> w, manual |-> manual, continuous |-> continuous,
                   id |-> 0, stage |-> "enter", from |-> REQUEST_STATE_IDLE,
                   refresh |-> refresh]

\* a do_completion that does not look at the request state
DoCompletionGuardMut(st) == TRUE
\* do_completion, the guarded entry (lines 731-745)
DoCompletionGuard(st) == st # REQUEST_STATE_REQUESTING

\* do_completion, its first critical section (lines 731-745)
DoCompletionEnter ==
    /\ pending.stage = "enter"
    /\ IF ~DoCompletionGuard(request_state)
       THEN /\ pending' = NoBody
            /\ UNCHANGED <<request_state, last_request_id, panes>>
       ELSE /\ panes' = IF /\ request_state = REQUEST_STATE_SHOWING
                           /\ panes[pending.widget].gh.active
                        THEN [panes EXCEPT ![pending.widget] = GhostClear(@)]
                        ELSE panes
            /\ request_state' = REQUEST_STATE_REQUESTING
            /\ last_request_id' = last_request_id + 1
            /\ pending' = [pending EXCEPT !.id = last_request_id + 1, !.stage = "body",
                                          !.from = request_state]
    /\ last_op' = NoOp
    /\ UNCHANGED <<cur, auto_timer, timers, since_request, cont, idle, workers, inputs>>
    /\ UNCHANGED calc

\* The context do_completion captures from a widget (lines 752-794).
CaptureContext(wd) ==
    LET buf == wd.buf
        raw_selection == IF HasSel(buf) THEN TextOf(buf, SelFirst(buf), SelLast(buf)) ELSE <<>>
        fix == ~IsBlank(raw_selection)
        ex == ExpandSelection(AllText(buf), SelFirst(buf), SelLast(buf))
    IN  IF fix
        THEN [mode |-> COMPLETION_MODE_FIX,
              prefix |-> TextOf(buf, 0, ex.selection_start),
              suffix |-> TextOf(buf, ex.selection_end, Len(buf)),
              selection_start |-> ex.selection_start,
              selection_end |-> ex.selection_end,
              selected_text |-> ex.selected_text,
              boundary_before |-> ex.boundary_before,
              boundary_after |-> ex.boundary_after]
        ELSE [mode |-> COMPLETION_MODE_INSERT,
              prefix |-> TextOf(buf, 0, wd.ins),
              suffix |-> TextOf(buf, wd.ins, Len(buf)),
              selection_start |-> 0,
              selection_end |-> 0,
              selected_text |-> <<>>,
              boundary_before |-> <<>>,
              boundary_after |-> <<>>]

\* a short-prefix return that forgets to reset the state
ShortPrefixStateMut == REQUEST_STATE_REQUESTING
\* do_completion, the state a short prefix leaves (lines 798-802)
ShortPrefixState == REQUEST_STATE_IDLE

\* a length check that manual triggers do not bypass
PrefixTooShortMut(call) ==
    LET ctx == CaptureContext(panes[call.widget].wd)
    IN  /\ ctx.mode = COMPLETION_MODE_INSERT
        /\ Len(Strip(ctx.prefix)) < MIN_PREFIX_LENGTH
\* do_completion, the short-prefix test of an automatic completion (lines 796-797)
PrefixTooShort(call) ==
    LET ctx == CaptureContext(panes[call.widget].wd)
    IN  /\ ctx.mode = COMPLETION_MODE_INSERT
        /\ ~call.manual
        /\ Len(Strip(ctx.prefix)) < MIN_PREFIX_LENGTH

\* do_completion, the request thread it starts with what it has captured
\* (lines 804-841)
RequestThread(call) ==
    LET ctx == CaptureContext(panes[call.widget].wd)
    IN  [id |-> call.id, widget |-> call.widget,
         suffix |-> ctx.suffix, mode |-> ctx.mode,
         selection_start |-> ctx.selection_start,
         selection_end |-> ctx.selection_end,
         selected_text |-> ctx.selected_text,
         boundary_before |-> ctx.boundary_before,
         boundary_after |-> ctx.boundary_after,
         pc |-> "http", response |-> [status |-> 0, content |-> <<>>],
         result |-> [success |-> FALSE, text |-> <<"?">>],
         handler |-> "none"]

\* do_completion, the rest of the call (lines 747-841): capture the context,
\* give up on a short prefix, or start the request thread.
DoCompletionBody ==
    /\ pending.stage = "body"
    /\ request_state' = IF PrefixTooShort(pending) THEN ShortPrefixState ELSE request_state
    /\ workers' = IF PrefixTooShort(pending) THEN workers
                  ELSE workers \cup {RequestThread(pending)}
    /\ since_request' = IF PrefixTooShort(pending) THEN since_request ELSE 0
    /\ pending' = NoBody
    /\ last_op' = IF PrefixTooShort(pending) THEN NoOp
                  ELSE [op |-> "request", widget |-> pending.widget,
                        manual |-> pending.manual]
    /\ UNCHANGED <<last_request_id, panes, cur, auto_timer, timers, cont, idle, inputs>>
    /\ UNCHANGED calc

\* do_completion, an exception inside the try (lines 843-847): the state is
\* reset and _handle_error runs.
DoCompletionRaise ==
    /\ pending.stage = "body"
    /\ request_state' = REQUEST_STATE_IDLE
    /\ pending' = NoBody
    /\ last_op' = [op |-> "raise", widget |-> pending.widget]
    /\ UNCHANGED <<last_request_id, panes, cur, auto_timer, timers, since_request, cont, idle, workers, inputs>>
    /\ UNCHANGED calc

\* a trigger_ai_completion that does not look at the request state
TriggerGuardMut(current_state) == TRUE
\* trigger_ai_completion, the state check (lines 998-1004)
TriggerGuard(current_state) == current_state # REQUEST_STATE_REQUESTING

\* trigger_ai_completion on the current editor
TriggerAiCompletion ==
    /\ UIReady
    /\ LET ghost == panes[cur].gh
           current_state == request_state
           refresh == current_state = REQUEST_STATE_SHOWING /\ ghost.active
       IN  IF ~TriggerGuard(current_state)
           THEN UNCHANGED <<request_state, panes, pending>>
           ELSE /\ request_state' = IF refresh THEN REQUEST_STATE_IDLE ELSE request_state
                /\ panes' = IF refresh THEN [panes EXCEPT ![cur] = GhostClear(@)] ELSE panes
                /\ CallDoCompletion(cur, TRUE, FALSE, refresh)
    /\ last_op' = NoOp
    /\ UNCHANGED <<last_request_id, cur, auto_timer, timers, since_request, cont, idle, workers, inputs>>
    /\ UNCHANGED calc

\* The callback of the timer t, due now: do_completion(widget)
AutoTimerFire(t) ==
    /\ UIReady
    /\ t \in timers
    /\ t.ms = 0
    /\ timers' = timers \ {t}
    /\ CallDoCompletion(t.widget, FALSE, FALSE, FALSE)
    /\ last_op' = NoOp
    /\ UNCHANGED <<request_state, last_request_id, panes, cur, auto_timer,
                   since_request, cont, idle, workers, inputs>>
    /\ UNCHANGED calc

\* TickMs milliseconds pass: the pending timers come closer to being due.
Tick ==
    /\ \/ \E t \in timers : t.ms > 0
       \/ since_request < MIN_TRIGGER_INTERVAL_MS
    /\ timers' = {[t EXCEPT !.ms = Max(0, @ - TickMs)] : t \in timers}
    /\ since_request' = Min(since_request + TickMs, MIN_TRIGGER_INTERVAL_MS)
    /\ last_op' = NoOp
    /\ UNCHANGED <<request_state, last_request_id, panes, cur, auto_timer, cont,
                   idle, workers, pending, inputs>>
    /\ UNCHANGED calc

\* The keys GhostText._on_key_release and _on_key_release_auto ignore.
GhostIgnoredKeys ==
    {"Tab", "Escape", "Shift_L", "Shift_R", "Control_L", "Control_R", "Alt_L",
     "Alt_R", "Caps_Lock", "Num_Lock"}
AutoIgnoredKeys ==
    {"Tab", "Escape", "Return", "Up", "Down", "Left", "Right", "Shift_L",
     "Shift_R", "Control_L", "Control_R", "Alt_L", "Alt_R", "BackSpace", "Delete"}

\* GhostText._on_key_release: a key that is not ignored defers the clearing
\* of an active suggestion to the idle queue.
OnKeyRelease(keysym, w, active) ==
    QueueIdle(w, active /\ keysym \notin GhostIgnoredKeys)

\* a cancel that leaves the timer pending
AfterCancelMut(ts, id) == ts
\* widget.after_cancel(_auto_timer): the timer with that id is no longer pending
AfterCancel(ts, id) == {t \in ts : t.id # id}

\* _on_key_release_auto(event, widget): active is ghost.active, line the text
\* from the line start to the cursor, id the id Tk gives a new timer.
OnKeyReleaseAuto(keysym, w, active, line, id) ==
    IF keysym \in AutoIgnoredKeys
    THEN UNCHANGED <<auto_timer, timers>>
    ELSE IF ~active /\ ShouldTrigger(line)
         THEN /\ timers' = AfterCancel(timers, auto_timer) \cup
                     {[id |-> id, widget |-> w, ms |-> AUTO_TRIGGER_DELAY_MS]}
              /\ auto_timer' = id
         ELSE /\ timers' = AfterCancel(timers, auto_timer)
              /\ auto_timer' = auto_timer

\* a callback that does not look where the cursor is
AtLineEndMut(col, current_line) == TRUE
\* trigger_next_completion, its test that the cursor is at the end of the line
\* (line 405)
AtLineEnd(col, current_line) == col >= Len(RStrip(current_line))

\* trigger_next_completion, the callback _accept schedules (lines 395-409)
ContinuousFire(w) ==
    /\ UIReady
    /\ cont[w] > 0
    /\ cont' = [cont EXCEPT ![w] = @ - 1]
    /\ LET wd == panes[w].wd
           current_line == AllText(wd.buf)
       IN  IF AtLineEnd(wd.ins, current_line)
           THEN CallDoCompletion(w, FALSE, TRUE, FALSE)
           ELSE UNCHANGED pending
    /\ last_op' = NoOp
    /\ UNCHANGED <<request_state, last_request_id, panes, cur, auto_timer, timers, since_request, idle,
                   workers, inputs>>
    /\ UNCHANGED calc

\* GhostText._clear_and_reset, run from the idle queue
ClearAndReset(w) ==
    /\ UIReady
    /\ idle[w] > 0
    /\ idle' = [idle EXCEPT ![w] = @ - 1]
    /\ panes' = [panes EXCEPT ![w] = GhostClear(@)]
    /\ request_state' = REQUEST_STATE_IDLE
    /\ last_op' = IF panes[w].gh.active THEN [op |-> "idle_clear", widget |-> w] ELSE NoOp
    /\ UNCHANGED <<last_request_id, cur, auto_timer, timers, since_request, cont, workers, pending, inputs>>
    /\ UNCHANGED calc

\* A key stroke that types the character c into the current editor: the Text
\* class binding replaces the selection by c at the cursor, then the
\* <KeyRelease> bindings run: GhostText._on_key_release and _on_key_release_auto.
TypeChar(c) ==
    /\ UIReady
    /\ inputs < MaxInputs
    /\ inputs' = inputs + 1
    /\ LET p == panes[cur]
           buf == p.wd.buf
           w0 == IF HasSel(buf) /\ SelFirst(buf) <= p.wd.ins /\ p.wd.ins <= SelLast(buf)
                 THEN DeleteRange(p.wd, SelFirst(buf), SelLast(buf)) ELSE p.wd
           w1 == InsertPlain(w0, w0.ins, <<c>>)
           line == TextOf(w1.buf, 0, w1.ins)
       IN  /\ panes' = [panes EXCEPT ![cur].wd = w1]
           /\ OnKeyRelease(c, cur, p.gh.active)
           /\ OnKeyReleaseAuto(c, cur, p.gh.active, line, inputs + 1)
    /\ last_op' = [op |-> "key", widget |-> cur, keysym |-> c]
    /\ UNCHANGED <<request_state, last_request_id, cur, since_request, cont, workers,
                   pending>>
    /\ UNCHANGED calc

\* A key stroke of a key that types nothing (a cursor key, a modifier), in the
\* current editor: Left moves the cursor one character back and drops the
\* selection; then the <KeyRelease> bindings run.
PressKey(keysym) ==
    /\ UIReady
    /\ inputs < MaxInputs
    /\ inputs' = inputs + 1
    /\ LET p == panes[cur]
           w1 == IF keysym = "Left"
                 THEN [ClearSel(p.wd) EXCEPT !.ins = Max(0, p.wd.ins - 1)]
                 ELSE p.wd
           line == TextOf(w1.buf, 0, w1.ins)
       IN  /\ panes' = [panes EXCEPT ![cur].wd = w1]
           /\ OnKeyRelease(keysym, cur, p.gh.active)
           /\ OnKeyReleaseAuto(keysym, cur, p.gh.active, line, inputs + 1)
    /\ last_op' = [op |-> "key", widget |-> cur, keysym |-> keysym]
    /\ UNCHANGED <<request_state, last_request_id, cur, since_request, cont, workers,
                   pending>>
    /\ UNCHANGED calc

\* A mouse click at offset pos of the current editor: GhostText._on_interrupt,
\* then the class binding moves the cursor and drops the selection.
Click(pos) ==
    /\ UIReady
    /\ pos \in 0..Len(panes[cur].wd.buf)
    /\ inputs < MaxInputs
    /\ inputs' = inputs + 1
    /\ QueueIdle(cur, panes[cur].gh.active)
    /\ panes' = [panes EXCEPT ![cur].wd = [ClearSel(@) EXCEPT !.ins = pos]]
    /\ last_op' = IF panes[cur].gh.active THEN [op |-> "click", widget |-> cur] ELSE NoOp
    /\ UNCHANGED <<request_state, last_request_id, cur, auto_timer, timers, since_request, cont, workers,
                   pending>>
    /\ UNCHANGED calc

\* A mouse drag selecting the offsets lo..hi of the current editor: the
\* button press runs GhostText._on_interrupt, the drag sets "sel" and the cursor.
Select(lo, hi) ==
    /\ UIReady
    /\ lo < hi /\ hi <= Len(panes[cur].wd.buf)
    /\ inputs < MaxInputs
    /\ inputs' = inputs + 1
    /\ QueueIdle(cur, panes[cur].gh.active)
    /\ panes' = [panes EXCEPT ![cur].wd = [SetSel(@, lo, hi) EXCEPT !.ins = hi]]
    /\ last_op' = IF panes[cur].gh.active THEN [op |-> "click", widget |-> cur] ELSE NoOp
    /\ UNCHANGED <<request_state, last_request_id, cur, auto_timer, timers, since_request, cont, workers,
                   pending>>
    /\ UNCHANGED calc

\* GhostText._accept, continuous_enabled (lines 380-393) when the configuration
\* holds completion.continuous_completion: main.py imports get_config and
\* is_ai_enabled but not AIConfig, so with HAS_CONFIG the call AIConfig() raises
\* NameError, the bare except passes and the default stays; without HAS_CONFIG
\* the configuration is not read.
ContinuousEnabled(continuous_completion) == TRUE

\* GhostText._on_tab in the current editor: accept the suggestion (_accept),
\* or indent.  Both <KeyRelease> handlers ignore Tab.
Tab ==
    /\ UIReady
    /\ LET p == panes[cur]
           spaces == [k \in 1..TabWidth |-> " "]
       IN  IF p.gh.active
           THEN /\ panes' = [panes EXCEPT ![cur] = GhostAccept(p)]
                /\ request_state' = REQUEST_STATE_IDLE
                /\ \E continuous_completion \in BOOLEAN :
                      LET schedule == /\ ~p.gh.replacement_mode
                                      /\ ContinuousEnabled(continuous_completion)
                      IN  /\ schedule => cont[cur] < MaxCont
                          /\ cont' = IF schedule
                                     THEN [cont EXCEPT ![cur] = @ + 1] ELSE cont
                          /\ last_op' = [op |-> "accept", widget |-> cur,
                                         continuous_completion |-> continuous_completion]
                /\ UNCHANGED inputs
           ELSE /\ inputs < MaxInputs
                /\ last_op' = NoOp
                /\ inputs' = inputs + 1
                /\ panes' = [panes EXCEPT ![cur].wd =
                       InsertPlain(@, IF HasSel(@.buf) THEN 0 ELSE @.ins, spaces)]
                /\ UNCHANGED <<request_state, cont>>
    /\ UNCHANGED <<last_request_id, cur, auto_timer, timers, since_request, idle, workers, pending>>
    /\ UNCHANGED calc

\* GhostText._on_escape in the current editor
Escape ==
    /\ UIReady
    /\ panes[cur].gh.active
    /\ panes' = [panes EXCEPT ![cur] = GhostClear(@)]
    /\ request_state' = REQUEST_STATE_IDLE
    /\ last_op' = [op |-> "escape", widget |-> cur]
    /\ UNCHANGED <<last_request_id, cur, auto_timer, timers, since_request, cont, idle, workers, pending,
                   inputs>>
    /\ UNCHANGED calc

\* The user switches to another editor tab (setup_widget has run for each).
SwitchEditor(w) ==
    /\ UIReady
    /\ w # cur
    /\ cur' = w
    /\ last_op' = NoOp
    /\ UNCHANGED <<request_state, last_request_id, panes, auto_timer, timers, since_request, cont, idle,
                   workers, pending, inputs>>
    /\ UNCHANGED calc

\* a request thread that takes every response for the latest
ExpiredMut(current_request_id, latest) == FALSE
\* request_thread, the expiry test (line 823)
Expired(current_request_id, latest) == current_request_id # latest

\* result.get("success") and result.get("data", {}).get("raw_analysis", ""),
\* the part of the result a request thread is recorded with; the message of
\* a failure is that of Request(api_key, response, mode).
ResultData(result) == [success |-> result.success, text |-> result.text]

\* request_thread: the HTTP exchange brings back response, client.request(context)
\* returns and the expiry check runs (lines 820-831): a response whose id is
\* still the latest schedules _handle_result with widget.after(0, ...), an
\* expired one is dropped.
WorkerCheck(r, response) ==
    /\ r.pc = "http"
    /\ workers' = (workers \ {r}) \cup
           {IF Expired(r.id, last_request_id)
            THEN [r EXCEPT !.pc = "finally", !.handler = "dropped"]
            ELSE [r EXCEPT !.pc = "finally", !.response = response,
                           !.result = ResultData(Request(ConfiguredKey, response, r.mode)),
                           !.handler = "pending"]}
    /\ last_op' = NoOp
    /\ UNCHANGED <<request_state, last_request_id, panes, cur, auto_timer, timers, since_request, cont,
                   idle, pending, inputs>>
    /\ UNCHANGED calc

\* request_thread: the finally block (lines 835-839)
WorkerFinally(r) ==
    /\ r.pc = "finally"
    /\ request_state' =
           IF r.id = last_request_id /\ request_state = REQUEST_STATE_REQUESTING
           THEN REQUEST_STATE_IDLE ELSE request_state
    /\ workers' = (workers \ {r}) \cup
           (IF r.handler = "pending" THEN {[r EXCEPT !.pc = "done"]} ELSE {})
    /\ last_op' = NoOp
    /\ UNCHANGED <<last_request_id, panes, cur, auto_timer, timers, since_request, cont, idle, pending,
                   inputs>>
    /\ UNCHANGED calc

\* a handler that sets Showing whatever show returned
ResultStateMut(ok) == REQUEST_STATE_SHOWING
\* _handle_result, the state it leaves: Showing if show / show_replacement
\* returned True, Idle on every other path (lines 863-896)
ResultState(ok) == IF ok THEN REQUEST_STATE_SHOWING ELSE REQUEST_STATE_IDLE

\* _handle_result, the widget of r after the handler and whether a suggestion
\* was shown (lines 863-899): a failure and a blank suggestion show nothing and
\* leave the widget alone.
Shown(r) ==
    LET p == panes[r.widget]
        raw == r.result.text
        fix == r.mode = COMPLETION_MODE_FIX
        suggestion == IF fix
                      THEN RemoveBoundaryOverlap(raw, r.boundary_before, r.boundary_after)
                      ELSE raw
    IN  IF ~r.result.success \/ IsBlank(raw)
        THEN [pane |-> p, ok |-> FALSE]
        ELSE IF fix
             THEN GhostShowReplacement(p, suggestion, r.selection_start,
                                       r.selection_end, r.selected_text)
             ELSE GhostShow(p, suggestion, r.suffix)

\* _handle_result, what it surfaces besides the suggestion: the error of a
\* failure, the status message of a blank or a fix suggestion.
Surfaced(r) ==
    IF ~r.result.success
    THEN HandleError(RequestFailure(ConfiguredKey, r.response).message, r.widget)
    ELSE IF IsBlank(r.result.text)
    THEN [op |-> "status", widget |-> r.widget,
          message |-> "No suggestion available", dialog |-> "none"]
    ELSE IF r.mode = COMPLETION_MODE_FIX /\ Shown(r).ok
    THEN [op |-> "status", widget |-> r.widget,
          message |-> "Fix suggested - Tab to accept, Esc to cancel",
          dialog |-> "none"]
    ELSE NoOp

\* _handle_result(result, widget, suffix, ...) for the response of r;
\* a failure goes to _handle_error.
HandleResult(r) ==
    /\ UIReady
    /\ r.handler = "pending"
    /\ \E shown \in {Shown(r)} :
           /\ panes' = [panes EXCEPT ![r.widget] = shown.pane]
           /\ request_state' = ResultState(shown.ok)
    /\ workers' = (workers \ {r}) \cup
           (IF r.pc = "done" THEN {} ELSE {[r EXCEPT !.handler = "ran"]})
    /\ last_op' = Surfaced(r)
    /\ UNCHANGED <<last_request_id, cur, auto_timer, timers, since_request, cont, idle, pending, inputs>>
    /\ UNCHANGED calc

\* The editing inputs of the user and the callbacks they schedule.
Editing ==
    \/ \E t \in timers : AutoTimerFire(t)
    \/ \E keysym \in {"Left", "Shift_L"} : PressKey(keysym)
    \/ \E w \in DOMAIN panes : ClearAndReset(w)
    \/ \E c \in TypedChars : TypeChar(c)
    \/ \E pos \in 0..Len(panes[cur].wd.buf) : Click(pos)
    \/ \E lo \in 0..Len(panes[cur].wd.buf), hi \in 0..Len(panes[cur].wd.buf) : Select(lo, hi)

\* Requests, responses and the resolution of suggestions.
Coordination ==
    \/ DoCompletionEnter
    \/ DoCompletionBody
    \/ DoCompletionRaise
    \/ TriggerAiCompletion
    \/ \E w \in DOMAIN panes : ContinuousFire(w)
    \/ Tab
    \/ Escape
    \/ \E r \in workers, response \in Responses : WorkerCheck(r, response)
    \/ \E r \in workers : WorkerFinally(r)
    \/ \E r \in workers : HandleResult(r)

Next == Editing \/ Coordination \/ Tick

\* One editor, edited and completed.
Spec == Init /\ [][Next]_vars

\* Two editor tabs sharing the coordinator; the user switches between them,
\* triggers, accepts and dismisses; the only edit is the Tab indent.
NextTabs == Coordination \/ \E w \in DOMAIN panes : SwitchEditor(w)
SpecTabs == InitTabs /\ [][NextTabs]_vars

\* The scheduling the code relies on: the UI thread finishes the call of
\* do_completion it is inside, every HTTP call returns, and a request thread
\* runs to the end of its finally block.
Fairness ==
    /\ WF_vars(DoCompletionEnter)
    /\ WF_vars(DoCompletionBody \/ DoCompletionRaise)
    /\ WF_vars(\E r \in workers, response \in Responses : WorkerCheck(r, response))
    /\ WF_vars(\E r \in workers : WorkerFinally(r))
\* One editor, typed into and clicked in, with automatic and manual requests
\* whose suggestions the next key or click dismisses, under that scheduling.
NextLive ==
    \/ DoCompletionEnter
    \/ DoCompletionBody
    \/ DoCompletionRaise
    \/ TriggerAiCompletion
    \/ \E r \in workers, response \in Responses : WorkerCheck(r, response)
    \/ \E r \in workers : WorkerFinally(r)
    \/ \E r \in workers : HandleResult(r)
    \/ Tick
    \/ \E t \in timers : AutoTimerFire(t)
    \/ \E w \in DOMAIN panes : ClearAndReset(w)
    \/ \E c \in TypedChars : TypeChar(c)
    \/ \E pos \in 0..Len(panes[cur].wd.buf) : Click(pos)
FairSpec == Init /\ [][NextLive]_vars /\ Fairness

\* ------------------------------------------------ functions on their own
\* The variables of a session; a function applied on its own leaves them alone.
session == <<request_state, last_request_id, panes, cur, auto_timer, timers,
             since_request, cont, idle, workers, pending, inputs, last_op>>

\* A call of the function fn with the arguments args, not yet made.
Call(fn, args) == [fn |-> fn, args |-> args, done |-> FALSE, result |-> <<>>]
\* The call calc holds returns result.
Return(fn, result) ==
    /\ calc.fn = fn
    /\ ~calc.done
    /\ calc' = [calc EXCEPT !.done = TRUE, !.result = result]
    /\ UNCHANGED session

\* client.request(context) of a client with or without a key, for each answer
\* the HTTP exchange would bring back.
RequestCalls ==
    {Call("request", [api_key |-> api_key, response |-> response, mode |-> mode]) :
        api_key \in ApiKeys, response \in Responses,
        mode \in {COMPLETION_MODE_INSERT, COMPLETION_MODE_FIX}}
ClientRequest ==
    Return("request", Request(calc.args.api_key, calc.args.response, calc.args.mode))

\* The states a renderer is in when show is called: nothing shown, with the
\* cursor anywhere; a completion shown at the cursor; a replacement shown for
\* a selection; and each of the shown ones after a click and a typed character.
ShowText == <<"x", "a">>
PaneAt(pos) == [wd |-> [InitWidget EXCEPT !.ins = pos], gh |-> GhostInit]
ShownPanes ==
    {GhostShow(PaneAt(pos), ShowText, <<>>).pane : pos \in 0..Len(InitText)} \cup
    {GhostShowReplacement(PaneAt(sel[2]), ShowText, sel[1], sel[2],
                          SubSeq(InitText, sel[1] + 1, sel[2])).pane :
        sel \in {x \in (0..Len(InitText)) \X (1..Len(InitText)) : x[1] < x[2]}}
TypedInto(p, pos) ==
    [p EXCEPT !.wd = InsertPlain([@ EXCEPT !.ins = pos], pos, <<"a">>)]
RendererStates ==
    {PaneAt(pos) : pos \in 0..Len(InitText)} \cup ShownPanes \cup
    UNION {{TypedInto(p, pos) : pos \in 0..Len(p.wd.buf)} : p \in ShownPanes}

\* ghost.show(text, suffix) in each of these states, for blank texts and
\* texts that are not; the suffix "a" starts with the text "a" and ends the
\* text "xa".
BlankTexts == {<<>>, <<" ">>, <<" ", "\t">>}
ShowCalls ==
    {Call("show", [pane |-> p, text |-> text, suffix |-> suffix]) :
        p \in RendererStates, text \in BlankTexts \cup {ShowText, InitText, <<"a">>},
        suffix \in {<<>>, <<"a">>}}
GhostShowCall ==
    Return("show", GhostShow(calc.args.pane, calc.args.text, calc.args.suffix))

\* The texts of at most n characters over letters, the space and the newline.
Texts(n) == UNION {[1..k -> {"a", "b", " ", "\n"}] : k \in 0..n}

\* ghost._remove_overlap(suggestion, suffix), for the suggestion of a request
\* whose context had the prefix given; pass counts the applications and
\* first keeps the result of the first.
RemoveOverlapCalls ==
    {Call("remove_overlap",
          [suggestion |-> suggestion, prefix |-> prefix, suffix |-> suffix,
           pass |-> 1, first |-> <<>>]) :
        suggestion \in Texts(MaxSuggestionLen), prefix \in Texts(MaxPrefixLen),
        suffix \in Texts(MaxSuffixLen)}
RemoveOverlapCall ==
    Return("remove_overlap", RemoveOverlap(calc.args.suggestion, calc.args.suffix))
\* _remove_overlap applied to its own result, with the same suffix
RemoveOverlapAgain ==
    /\ calc.fn = "remove_overlap"
    /\ calc.done
    /\ calc.args.pass = 1
    /\ calc' = [calc EXCEPT !.args.pass = 2, !.args.first = calc.result,
                            !.result = RemoveOverlap(calc.result, calc.args.suffix)]
    /\ UNCHANGED session

\* _clean_completion applied to the answers of a model: up to
\* MaxResponseLines lines, each one a header, a body line, a fence, a line
\* of prose, a partial header or a statement; in the modes of main.py and in
\* "analysis", the mode of a request whose context names none.
ResponseLines ==
    {<<"d", "e", "f", " ", "f", "o", "o", "(", ")", ":">>,
     <<" ", " ", " ", " ", "p", "a", "s", "s">>,
     <<"d", "e", "f", " ", "b", "a", "r", "(", ")", ":">>,
     <<"U0060", "U0060", "U0060">>,
     <<"U0060", "U0060", "U0060", "p", "y", "t", "h", "o", "n">>,
     <<"H", "e", "r", "e", " ", "i", "s", " ", "t", "h", "e", " ", "c", "o", "d", "e", ":">>,
     <<"f", "o", "o", "(", "n", ")", ":">>,
     <<"x", " ", "=", " ", "1">>}
LineSeqs(n) == UNION {[1..k -> ResponseLines] : k \in 1..n}
CleanCompletionCalls ==
    {Call("clean_completion", [response |-> JoinLines(ls), mode |-> mode]) :
        ls \in LineSeqs(MaxResponseLines),
        mode \in {COMPLETION_MODE_INSERT, COMPLETION_MODE_FIX, "analysis"}}
CleanCompletionCall ==
    Return("clean_completion", CleanCompletion(calc.args.response, calc.args.mode))

\* extract_context applied to the buffers of up to MaxBufferLen characters
\* and every cursor position in them, with the windows of the module's
\* constants and with a small one.
Buffers == UNION {[1..k -> {"a", "b", "\n", "\f"}] : k \in 0..MaxBufferLen}
Windows ==
    {[lines_before |-> CONTEXT_LINES_BEFORE, lines_after |-> CONTEXT_LINES_AFTER,
      max_chars |-> MAX_CONTEXT_CHARS],
     [lines_before |-> WindowLines, lines_after |-> WindowLines,
      max_chars |-> WindowChars]}
ExtractContextCalls ==
    {c \in {Call("extract_context", [full_text |-> text, pos |-> pos, window |-> window]) :
                text \in Buffers, pos \in 0..MaxBufferLen, window \in Windows} :
        c.args.pos <= Len(c.args.full_text)}
ExtractContextCall ==
    Return("extract_context",
           ExtractContext(calc.args.full_text,
                          TkIndex(calc.args.full_text, calc.args.pos).line,
                          TkIndex(calc.args.full_text, calc.args.pos).col,
                          calc.args.window))

\* _should_trigger applied to the lines of up to MaxLineLen characters
\* over brackets, a letter and the space: line is the text from the line start
\* to the cursor.
ShouldTriggerCalls ==
    {Call("should_trigger", [line |-> line]) :
        line \in UNION {[1..k -> {"(", ")", "a", " "}] : k \in 0..MaxLineLen}}
ShouldTriggerCall == Return("should_trigger", ShouldTrigger(calc.args.line))

\* The URL built for each endpoint a user may configure: a host followed by
\* up to MaxUrlParts pieces, each a slash, a version or the path of the API;
\* the path comes once at most, with nothing but slashes after it.
RequestUrlCalls ==
    {Call("request_url", [endpoint |-> <<"h">> \o JoinAll(ps)]) :
        ps \in {qs \in UNION {[1..k -> {<<"/">>, <<"/", "v", "1">>, ChatCompletionsPath}] :
                                  k \in 0..MaxUrlParts} :
                   \A i \in 1..Len(qs) :
                       qs[i] = ChatCompletionsPath =>
                           \A j \in (i + 1)..Len(qs) : qs[j] = <<"/">>}}
RequestUrlCall == Return("request_url", RequestUrl(calc.args.endpoint))

InitFunctions ==
    /\ InitWith({"A"})
    /\ \/ calc \in RequestCalls
       \/ calc \in ShowCalls
       \/ calc \in RemoveOverlapCalls
       \/ calc \in CleanCompletionCalls
       \/ calc \in ExtractContextCalls
       \/ calc \in ShouldTriggerCalls
       \/ calc \in RequestUrlCalls
NextFunctions ==
    \/ ClientRequest
    \/ GhostShowCall
    \/ RemoveOverlapCall
    \/ RemoveOverlapAgain
    \/ CleanCompletionCall
    \/ ExtractContextCall
    \/ ShouldTriggerCall
    \/ RequestUrlCall
\* The functions of the plugin, each applied once to arguments of its domain.
SpecFunctions == InitFunctions /\ [][NextFunctions]_vars

\* ----------------------------------------------------------------- claims
\* The step in which _handle_result (or _handle_error through it) runs for
\* the response of r.
Handled(r) ==
    /\ r \in workers
    /\ r.handler = "pending"
    /\ \A r2 \in workers' : r2.id = r.id => r2.handler = "ran"

C2_NoOpWhileRequesting ==
    [][ /\ (pending.stage = "enter" /\ request_state = REQUEST_STATE_REQUESTING
                                    /\ pending' # pending)
           => /\ pending' = NoBody
              /\ UNCHANGED <<request_state, last_request_id, workers, panes>>
        /\ (pending.stage = "none" /\ request_state = REQUEST_STATE_REQUESTING
                                   /\ pending'.stage = "enter")
           => ~pending'.manual ]_vars
\* do_completion has been called while a request is in progress
C2_Witness ==
    /\ pending.stage = "enter"
    /\ request_state = REQUEST_STATE_REQUESTING
    /\ \E r \in workers : r.id = last_request_id /\ r.pc = "http"

\* C3: a response is applied only if its request id is the latest one at the
\* moment its handler runs: while a newer request is in flight, the handler of
\* an older response changes neither the Requesting state nor any buffer or
\* suggestion.
C3_AppliedOnlyIfLatest ==
    [][ \A r \in workers :
          (/\ Handled(r)
           /\ r.id < last_request_id
           /\ request_state = REQUEST_STATE_REQUESTING
           /\ \E n \in workers : n.id = last_request_id /\ n.pc = "http")
          => UNCHANGED <<request_state, panes>> ]_vars

\* C4: a response whose request id is no longer the latest when the worker
\* checks it is dropped: no handler is scheduled, and neither the check nor
\* the worker's finally block changes the state, the counter or a buffer.
C4_StaleDiscarded ==
    [][ \A r \in workers :
          /\ (r.pc = "http" /\ r.id # last_request_id /\ r \notin workers')
             => /\ \A r2 \in workers' : r2.id = r.id => r2.handler = "dropped"
                /\ UNCHANGED <<request_state, last_request_id, panes>>
          /\ (r.handler = "dropped" /\ r \notin workers')
             => /\ \A r2 \in workers' : r2.id # r.id
                /\ UNCHANGED <<request_state, last_request_id, panes>> ]_vars
\* a stale response has been dropped while a suggestion of a newer request shows
C4_Witness ==
    \E r \in workers :
        /\ r.handler = "dropped"
        /\ r.id < last_request_id
        /\ request_state = REQUEST_STATE_SHOWING

\* C5: under fair scheduling, with every HTTP call returning, Requesting always
\* leads to Idle or Showing.
C5_NeverStuck ==
    (request_state = REQUEST_STATE_REQUESTING)
        ~> (request_state \in {REQUEST_STATE_IDLE, REQUEST_STATE_SHOWING})
\* an automatic completion is Requesting with a prefix too short to be sent
C5_Witness ==
    /\ request_state = REQUEST_STATE_REQUESTING
    /\ pending.stage = "body"
    /\ PrefixTooShort(pending)

\* C6: when _handle_result has handled a fresh successful response, the state
\* is Showing exactly if the suggestion was non-blank after overlap removal, and
\* then it is the active ghost suggestion, tagged text at the start mark;
\* otherwise the state is Idle and the handler has inserted nothing.
C6_ShowingIffShown ==
    [][ \A r \in workers :
          (Handled(r) /\ r.result.success) =>
            LET p == panes[r.widget]
                q == panes'[r.widget]
                raw == r.result.text
                suggestion ==
                    IF r.mode = COMPLETION_MODE_FIX
                    THEN RemoveBoundaryOverlap(raw, r.boundary_before, r.boundary_after)
                    ELSE IF r.suffix # <<>> THEN RemoveOverlap(raw, r.suffix) ELSE raw
                nonblank == ~IsBlank(raw) /\ ~IsBlank(suggestion)
            IN  /\ request_state' = IF nonblank THEN REQUEST_STATE_SHOWING
                                    ELSE REQUEST_STATE_IDLE
                /\ nonblank =>
                     /\ q.gh.active
                     /\ q.gh.ghost_text = suggestion
                     /\ \A k \in 1..Len(suggestion) :
                          q.wd.buf[q.wd.gs + k] = Cell(suggestion[k], TRUE, FALSE)
                /\ ~nonblank =>
                     /\ q \in {p, GhostClear(p)}
                     /\ GhostCells(q.wd.buf) \subseteq GhostCells(p.wd.buf) ]_vars
\* a fresh non-blank suggestion is shown and the state is Showing
C6_Witness ==
    /\ request_state = REQUEST_STATE_SHOWING
    /\ \E r \in workers :
          /\ r.handler = "ran" /\ r.result.success /\ r.id = last_request_id
          /\ panes[r.widget].gh.active
          /\ panes[r.widget].gh.ghost_text # <<>>

\* C7: over all editor widgets, at most one GhostText instance is active.
C7_AtMostOneActive ==
    Cardinality({w \in DOMAIN panes : panes[w].gh.active}) <= 1

C9_DismissRemovesExactly ==
    [][ (/\ \/ last_op'.op = "escape"
            \/ last_op'.op = "idle_clear" /\ last_op.op = "click"
         /\ ~panes[last_op'.widget].gh.replacement_mode) =>
          LET w == last_op'.widget
              p == panes[w]
              q == panes'[w]
          IN  /\ TextOf(p.wd.buf, p.wd.gs, p.wd.ge) = p.gh.ghost_text
              /\ AllText(q.wd.buf) = TextOf(p.wd.buf, 0, p.wd.gs)
                                      \o TextOf(p.wd.buf, p.wd.ge, Len(p.wd.buf))
              /\ ~q.gh.active
              /\ request_state' = REQUEST_STATE_IDLE ]_vars

\* C10: dismissing a replacement-mode suggestion leaves the buffer with the
\* text it had immediately before show_replacement ran.
C10_DismissRestoresOriginal ==
    [][ (/\ last_op'.op \in {"escape", "idle_clear"}
         /\ panes[last_op'.widget].gh.replacement_mode) =>
          AllText(panes'[last_op'.widget].wd.buf) = panes[last_op'.widget].gh.before ]_vars

\* C11: the debounce of the auto-trigger.  A key release that qualifies (key
\* not ignored, no active suggestion, heuristic true) leaves exactly one timer
\* pending, its own, with the full delay, so that of a burst only the last
\* timer survives; and a timer that fires is the one of the last qualifying
\* key release, a full delay old, and issues one call of do_completion.
C11_Debounce ==
    [][ /\ (/\ last_op'.op = "key"
            /\ last_op'.keysym \notin AutoIgnoredKeys
            /\ ~panes[cur].gh.active
            /\ ShouldTrigger(TextOf(panes'[cur].wd.buf, 0, panes'[cur].wd.ins)))
           => /\ auto_timer' \notin {t.id : t \in timers} \cup {auto_timer}
              /\ timers' = {[id |-> auto_timer', widget |-> cur,
                             ms |-> AUTO_TRIGGER_DELAY_MS]}
        /\ \A t \in timers :
             (/\ pending.stage = "none" /\ pending'.stage = "enter"
              /\ t \notin timers')
             => /\ t.id = auto_timer
                /\ t.ms = 0
                /\ timers' = {}
                /\ pending'.widget = t.widget /\ ~pending'.manual ]_vars
\* a burst of two typed characters has ended and its one timer has fired
C11_Witness ==
    /\ pending.stage = "enter" /\ ~pending.manual
    /\ last_request_id = 0
    /\ auto_timer = 2
    /\ timers = {}
    /\ Len(panes[cur].wd.buf) = Len(InitText) + 2

\* C12: after any key release has been processed by _on_key_release_auto,
\* whatever the key, no timer scheduled by an earlier key release is pending.
C12_KeySupersedes ==
    [][ last_op'.op = "key" => \A t \in timers' : t \notin timers ]_vars

\* C13: a request thread (an HTTP completion request) starts only when at
\* least MIN_TRIGGER_INTERVAL_MS have passed since the previous one started.
C13_MinInterval ==
    [][ (pending.stage = "body" /\ \E r \in workers' \ workers : r.id = pending.id)
        => since_request >= MIN_TRIGGER_INTERVAL_MS ]_vars

\* C14: a manual trigger bypasses the heuristic, the debounce delay and the
\* length check: it calls do_completion at once, never while Requesting; the
\* call entered in Idle it increments the counter by one and sets Requesting, and
\* unless the call raises it starts exactly one request thread, whatever the
\* line holds and however short the prefix is.
C14_ManualBypasses ==
    [][ /\ (pending'.manual /\ pending'.stage = "enter")
           => request_state' # REQUEST_STATE_REQUESTING
        /\ (pending.manual /\ pending.stage = "enter" /\ pending' # pending
                           /\ request_state = REQUEST_STATE_IDLE)
           => /\ last_request_id' = last_request_id + 1
              /\ request_state' = REQUEST_STATE_REQUESTING
              /\ pending'.stage = "body"
        /\ (pending.manual /\ pending.stage = "body" /\ pending' = NoBody
                           /\ last_op'.op # "raise")
           => /\ Cardinality(workers' \ workers) = 1
              /\ \A r \in workers' \ workers : r.id = pending.id /\ r.pc = "http"
              /\ workers \subseteq workers' ]_vars
\* a manual trigger has just started a request although the prefix is too
\* short for an automatic one
C14_Witness ==
    /\ last_op.op = "request" /\ last_op.manual
    /\ request_state = REQUEST_STATE_REQUESTING
    /\ \E r \in workers : r.id = last_request_id /\ r.pc = "http"
                           /\ r.mode = COMPLETION_MODE_INSERT
    /\ LET wd == panes[last_op.widget].wd
       IN  Len(Strip(TextOf(wd.buf, 0, wd.ins))) < MIN_PREFIX_LENGTH

C16_ContinuousOnlyPlainAtEnd ==
    [][ /\ \A w \in DOMAIN panes :
             cont'[w] > cont[w]
             => /\ last_op'.op = "accept" /\ last_op'.widget = w
                /\ panes[w].gh.active
                /\ ~panes[w].gh.replacement_mode
        /\ (pending.stage = "none" /\ pending'.stage = "enter" /\ pending'.continuous)
           => LET w == pending'.widget
                  wd == panes[w].wd
              IN  /\ cont'[w] < cont[w]
                  /\ wd.ins >= Len(RStrip(AllText(wd.buf))) ]_vars
\* the callback scheduled by an accept has called do_completion
C16_Witness ==
    /\ pending.stage = "enter" /\ pending.continuous
    /\ LET wd == panes[pending.widget].wd
       IN  wd.ins = Len(wd.buf) /\ Len(wd.buf) > Len(InitText)

\* C17: when the configuration sets completion.continuous_completion to
\* false, an accept schedules no follow-up request.
C17_ContinuousOnlyIfConfigured ==
    [][ (last_op'.op = "accept" /\ ~last_op'.continuous_completion)
        => cont' = cont ]_vars

\* C18: the worker thread writes neither a buffer nor the request state: the
\* steps of request_thread leave both unchanged.
C18_WorkerWritesNothing ==
    [][ ((\E r \in workers, response \in Responses : WorkerCheck(r, response))
          \/ (\E r \in workers : WorkerFinally(r)))
        => UNCHANGED <<request_state, panes>> ]_vars

C20_EmptyIsNoSuggestion ==
    [][ \A r \in workers :
          (Handled(r) /\ r.response.status = 200 /\ r.response.content = <<>>)
          => /\ request_state' = REQUEST_STATE_IDLE
             /\ last_op'.op = "status"
             /\ last_op'.message = "No suggestion available"
             /\ last_op'.dialog = "none" ]_vars

\* C21: a client without an API key answers request() with a failure whose
\* message names the API key, and makes no HTTP call.
C21_NoKeyNoCall ==
    (calc.fn = "request" /\ calc.done /\ calc.args.api_key = <<>>) =>
        /\ ~calc.result.success
        /\ Contains(calc.result.message, <<"A", "P", "I">>)
        /\ Contains(Lower(calc.result.message), <<"k", "e", "y">>)
        /\ calc.result.posts = 0
\* request() has returned to a client without a key
C21_Witness ==
    /\ calc.fn = "request" /\ calc.done /\ calc.args.api_key = <<>>
    /\ calc.args.response.status = 200
    /\ ~calc.result.success

\* C22: show() with empty or whitespace-only text returns False and leaves no
\* ghost-tagged text in the buffer and no active suggestion, in whatever state
\* the renderer of an editor is when it is called.
C22_BlankShowsNothing ==
    \A w \in DOMAIN panes, text \in BlankTexts :
        \A r \in {GhostShow(panes[w], text, <<>>)} :
            /\ ~r.ok
            /\ GhostCells(r.pane.wd.buf) = {}
            /\ ~r.pane.gh.active
            /\ r.pane.gh.ghost_text = <<>>

\* C23: overlap removal returns the suggestion unchanged when there is no
\* overlap: no suffix of the prefix and no prefix of the suffix matches a
\* prefix or a suffix of the suggestion (the empty text aside).
C23_NoOverlapUnchanged ==
    LET s == calc.args.suggestion
        prefix == calc.args.prefix
        suffix == calc.args.suffix
        affixes == {Take(s, n) : n \in 1..Len(s)} \cup
                   {Drop(s, n) : n \in 0..(Len(s) - 1)}
        no_overlap ==
            /\ \A n \in 0..(Len(prefix) - 1) : Drop(prefix, n) \notin affixes
            /\ \A n \in 1..Len(suffix) : Take(suffix, n) \notin affixes
    IN  (calc.fn = "remove_overlap" /\ calc.done /\ calc.args.pass = 1 /\ no_overlap)
            => calc.result = s

\* C24: overlap removal is idempotent: applied to its own result with the
\* same suffix it returns that result.
C24_Idempotent ==
    (calc.fn = "remove_overlap" /\ calc.done /\ calc.args.pass = 2) =>
        calc.result = calc.args.first

\* C25: the first line of a displayed suggestion never equals the last line
\* of the text before the cursor: leading lines that reproduce the end of the
\* prefix are trimmed before display.
C25_PrefixLinesTrimmed ==
    (calc.fn = "show" /\ calc.done /\ calc.result.ok) =>
        \A prefix \in {TextOf(calc.result.pane.wd.buf, 0, calc.result.pane.wd.gs)} :
            ~IsBlank(prefix) =>
                SplitLines(calc.result.pane.gh.ghost_text)[1] #
                    SplitLines(prefix)[Len(SplitLines(prefix))]

C27_NoFenceLeft ==
    (calc.fn = "clean_completion" /\ calc.done /\ calc.args.mode = COMPLETION_MODE_INSERT) =>
        ~Contains(calc.result, Fence)

\* C28: for every buffer and cursor position the prefix of the context ends
\* the text before the cursor and its suffix begins the text after it; each
\* covers no more lines and no more characters than the window allows.
C28_WindowAroundCursor ==
    (calc.fn = "extract_context" /\ calc.done) =>
        LET before == Take(calc.args.full_text, calc.args.pos)
            after == Drop(calc.args.full_text, calc.args.pos)
            prefix == calc.result.prefix
            suffix == calc.result.suffix
            window == calc.args.window
            breaks(t) == Cardinality({k \in 1..Len(t) : t[k] = "\n"})
        IN  /\ EndsWith(before, prefix)
            /\ StartsWith(after, suffix)
            /\ breaks(prefix) <= window.lines_before
            /\ breaks(Take(suffix, Len(suffix) - 1)) <= window.lines_after
            /\ Len(prefix) <= window.max_chars \div 2
            /\ Len(suffix) <= window.max_chars \div 2

\* C29: the buffer of an editor holds at most one ghost span, and the span is
\* the text of the most recent successful show or show_replacement, still
\* active.
C29_OneGhostSpan ==
    \A w \in DOMAIN panes :
        LET buf == panes[w].wd.buf
            cells == GhostCells(buf)
        IN  cells # {} =>
                /\ \A i, j \in cells : \A k \in i..j : k \in cells
                /\ panes[w].gh.active
                /\ [n \in 1..Cardinality(cells) |->
                       buf[n - 1 + CHOOSE k \in cells : \A j \in cells : k <= j].c]
                       = panes[w].gh.ghost_text

\* C30: accepted text stays: whenever _clear runs (Escape, a click or a key
\* through _clear_and_reset, a re-trigger, the start of a new show) it deletes
\* no text of an accepted suggestion.  The character "x" is written by
\* suggestions only, so an "x" without the ghost tag is accepted text.
C30_AcceptedStays ==
    \A w \in DOMAIN panes :
        LET accepted(buf) == Cardinality({k \in 1..Len(buf) : buf[k].c = "x" /\ ~buf[k].g})
        IN  accepted(GhostClear(panes[w]).wd.buf) >= accepted(panes[w].wd.buf)

\* C31: a suggestion that reproduces the start of the code after the cursor
\* is skipped: show inserts nothing and returns False.
C31_FullOverlapSkipped ==
    (/\ calc.fn = "show" /\ calc.done
     /\ ~IsBlank(calc.args.text)
     /\ StartsWith(calc.args.suffix, calc.args.text)) =>
        /\ ~calc.result.ok
        /\ calc.result.pane = GhostClear(calc.args.pane)

\* C32: for an answer made of a definition (a def header and its body lines)
\* followed by a repeat of it, the cleaned text is the first definition alone.
C32_FirstDefinitionAlone ==
    (calc.fn = "clean_completion" /\ calc.done /\ calc.args.mode = COMPLETION_MODE_INSERT) =>
        LET answer == SplitLines(calc.args.response)
            half == Len(answer) \div 2
            first == SubSeq(answer, 1, half)
            definition ==
                /\ half >= 1 /\ Len(answer) = 2 * half
                /\ first = SubSeq(answer, half + 1, 2 * half)
                /\ StartsWith(first[1], DefKeyword) /\ EndsWith(first[1], <<":">>)
                /\ \A i \in 2..half : StartsWith(first[i], <<" ">>)
        IN  definition => calc.result = JoinLines(first)

\* C33: when the answer opens with a bare completion ending in "):" without
\* the def keyword and a full definition follows on a later line, the cleaned
\* text is the one-line call: the function name and the placeholder argument.
C33_CallNotDefinition ==
    (calc.fn = "clean_completion" /\ calc.done /\ calc.args.mode = COMPLETION_MODE_INSERT) =>
        LET answer == SplitLines(calc.args.response)
            first_line == answer[1]
            bare == /\ EndsWith(first_line, <<")", ":">>)
                    /\ ~Contains(first_line, DefKeyword)
                    /\ CalledName(first_line) # <<>>
            definition_follows ==
                \E i \in 2..Len(answer) : StartsWith(answer[i], DefKeyword)
        IN  (bare /\ definition_follows) =>
                calc.result = CalledName(first_line) \o CallArguments

\* C34: the cleanup is applied exactly in the modes completion and fix: there
\* an answer that is a fenced block of code, or a line of prose followed by
\* code, comes back without the fences and without the prose; in every other
\* mode the answer comes back unchanged.
C34_CleanedIffCompletionOrFix ==
    (calc.fn = "clean_completion" /\ calc.done) =>
        LET answer == SplitLines(calc.args.response)
            n == Len(answer)
            statement == <<"x", " ", "=", " ", "1">>
            prose == <<"H", "e", "r", "e">>
            fenced == /\ n >= 3
                      /\ StartsWith(answer[1], Fence) /\ answer[n] = Fence
                      /\ \A i \in 2..(n - 1) : answer[i] = statement
            prose_wrapped == /\ n >= 2
                             /\ StartsWith(answer[1], prose)
                             /\ \A i \in 2..n : answer[i] = statement
        IN  IF calc.args.mode \in {COMPLETION_MODE_INSERT, COMPLETION_MODE_FIX}
            THEN (fenced \/ prose_wrapped) =>
                     /\ ~Contains(calc.result, Fence)
                     /\ ~Contains(calc.result, prose)
                     /\ Contains(calc.result, statement)
            ELSE calc.result = calc.args.response

\* C35: _should_trigger returns True for every line that is not blank and
\* holds an open "(": one that no later ")" of the line closes.
C35_OpenParenTriggers ==
    (calc.fn = "should_trigger" /\ calc.done) =>
        LET line == calc.args.line
            count(c, k, j) == Cardinality({i \in k..j : line[i] = c})
            unmatched(k) == /\ line[k] = "("
                            /\ \A j \in k..Len(line) : count("(", k, j) > count(")", k, j)
        IN  (~IsBlank(line) /\ \E k \in 1..Len(line) : unmatched(k)) =>
                calc.result = TRUE

\* C36: for every endpoint, with or without a trailing slash and with or
\* without the path already, the URL posted to ends with "/chat/completions",
\* holds it once, and is left as it is when normalised again.
C36_OneChatCompletionsPath ==
    (calc.fn = "request_url" /\ calc.done) =>
        LET url == calc.result
            at == {k \in 0..(Len(url) - Len(ChatCompletionsPath)) :
                      SubSeq(url, k + 1, k + Len(ChatCompletionsPath)) = ChatCompletionsPath}
        IN  /\ EndsWith(url, ChatCompletionsPath)
            /\ Cardinality(at) = 1
            /\ RequestUrl(url) = url

\* C37: at most one HTTP completion request is in flight: no request thread
\* is started while the HTTP call of an earlier one has not returned.
C37_OneRequestInFlight ==
    Cardinality({r \in workers : r.pc = "http"}) <= 1

\* C38: at every quiescent point of an editor, the UI thread inside no
\* handler, the ghost suggestion is active exactly if the request state is
\* Showing.
C38_ActiveIffShowing ==
    UIReady => \A w \in DOMAIN panes :
                   panes[w].gh.active <=> request_state = REQUEST_STATE_SHOWING

\* C39: whenever do_completion reads the buffer of a widget to capture the
\* context of a request, no ghost suggestion is active in that widget.
C39_NoGhostInContext ==
    pending.stage = "body" => ~panes[pending.widget].gh.active

\* C40: when a printable character is typed while an insert-mode suggestion
\* is shown, the cursor at the start mark, the deferred _clear deletes the
\* suggestion text and nothing else: the buffer is then the text it had before
\* the suggestion with the typed character at the cursor.
C40_TypedCharacterStays ==
    [][ \A w \in DOMAIN panes :
          LET p == panes[w]
              q == panes'[w]
              c == last_op.keysym
              at == p.wd.gs
          IN  (/\ last_op.op = "key" /\ last_op.widget = w
               /\ last_op.keysym \in TypedChars
               /\ p.gh.active /\ ~p.gh.replacement_mode
               /\ p.wd.ins = at + 1
               /\ AllText(p.wd.buf) = Take(p.gh.before, at) \o <<c>> \o p.gh.ghost_text
                                          \o Drop(p.gh.before, at)
               /\ last_op'.op = "idle_clear" /\ last_op'.widget = w) =>
                  AllText(q.wd.buf) = Take(p.gh.before, at) \o <<c>> \o Drop(p.gh.before, at)
      ]_vars

====
